---- MODULE Spec2Model ----
(***************************************************************************)
(* A model of the Sudoku puzzle engine: the grid with its candidate sets,  *)
(* the technique library, the fixed-point solver, the difficulty           *)
(* classifier, the solution counter and the clue-removal generator.        *)
(* Rows, columns and list positions are 0-based, as in the source.         *)
(***************************************************************************)
EXTENDS Integers, Sequences, FiniteSets, TLC

\* ------------------------------------------------------------------------
\* Small helpers for Python's lists and ranges
\* ------------------------------------------------------------------------

Range(n) == 0 .. (n - 1)

Max2(a, b) == IF a >= b THEN a ELSE b

Min2(a, b) == IF a <= b THEN a ELSE b

\* The elements of a set of integers in ascending order (the order in which
\* CPython iterates a set of small integers such as {1..6}).
SortedSeq(S) ==
    [i \in 1 .. Cardinality(S) |->
        CHOOSE x \in S : Cardinality({y \in S : y < x}) = i - 1]

\* Loops over a list are evaluated by halving the index range: the steps are
\* applied in the list's order, first to last, and the evaluation stays
\* shallow. Strict(v) is TRUE; it makes the value of the first half known
\* before the second half starts.
Mid(lo, hi) == (lo + hi) \div 2

Strict(v) == v = v

\* ------------------------------------------------------------------------
\* grid.py: SudokuGrid
\* ------------------------------------------------------------------------

\* SudokuGrid.__init__: all cells blank, every candidate set {1..size}.
NewGrid(size, box_rows, box_cols) ==
    [size |-> size, box_rows |-> box_rows, box_cols |-> box_cols,
     grid |-> [r \in Range(size) |-> [c \in Range(size) |-> 0]],
     candidates |-> [r \in Range(size) |-> [c \in Range(size) |-> 1 .. size]]]

Grid6x6 == NewGrid(6, 2, 3)

Grid9x9 == NewGrid(9, 3, 3)

\* The value create_grid raises for an unsupported size.
ValueError == [error |-> "ValueError"]

create_grid(size) ==
    IF size = 6 THEN Grid6x6
    ELSE IF size = 9 THEN Grid9x9
    ELSE ValueError

\* (r, c) pairs in row-major order, the order of every "for r ... for c ..." scan.
AllCells(size) == [i \in 1 .. (size * size) |-> <<(i - 1) \div size, (i - 1) % size>>]

box_start_row(g, row) == (row \div g.box_rows) * g.box_rows

box_start_col(g, col) == (col \div g.box_cols) * g.box_cols

InBoxOf(g, row, col, r, c) ==
    /\ r >= box_start_row(g, row) /\ r < box_start_row(g, row) + g.box_rows
    /\ c >= box_start_col(g, col) /\ c < box_start_col(g, col) + g.box_cols

get_value(g, row, col) == g.grid[row][col]

get_candidates(g, row, col) == g.candidates[row][col]

is_empty(g, row, col) == g.grid[row][col] = 0

\* PlaceValue without the loop over the box: the value is discarded along
\* the row and the column only.
PlaceValueRowAndColumn(g, row, col, value) ==
    [g EXCEPT
       !.grid[row][col] = value,
       !.candidates = [r \in Range(g.size) |-> [c \in Range(g.size) |->
            IF r = row /\ c = col THEN {}
            ELSE IF r = row \/ c = col
                 THEN g.candidates[r][c] \ {value}
                 ELSE g.candidates[r][c]]]]

\* The value > 0 branch of set_value: write the value, empty the cell's own
\* candidate set, discard the value along the row, the column and the box.
PlaceValue(g, row, col, value) ==
    [g EXCEPT
       !.grid[row][col] = value,
       !.candidates = [r \in Range(g.size) |-> [c \in Range(g.size) |->
            IF r = row /\ c = col THEN {}
            ELSE IF r = row \/ c = col \/ InBoxOf(g, row, col, r, c)
                 THEN g.candidates[r][c] \ {value}
                 ELSE g.candidates[r][c]]]]

\* recalculate_candidates: reset every set to {1..size}, then replay set_value
\* for every filled cell in row-major order (scan positions lo..hi, 1-based).
RECURSIVE ReplayFilled(_, _, _)
ReplayFilled(g, lo, hi) ==
    IF lo > hi THEN g
    ELSE IF lo = hi
         THEN LET r == (lo - 1) \div g.size
                  c == (lo - 1) % g.size
                  val == g.grid[r][c]
              IN IF val > 0 THEN PlaceValue(g, r, c, val) ELSE g
         ELSE LET first == ReplayFilled(g, lo, Mid(lo, hi))
              IN IF Strict(first) THEN ReplayFilled(first, Mid(lo, hi) + 1, hi) ELSE g

\* recalculate_candidates without "self.candidates = [[set(range(1, size + 1))
\* ...": the filled cells are replayed onto the candidate sets as they are.
recalculate_candidates_without_reset(g) ==
    ReplayFilled(g, 1, g.size * g.size)

recalculate_candidates(g) ==
    ReplayFilled([g EXCEPT !.candidates =
        [r \in Range(g.size) |-> [c \in Range(g.size) |-> 1 .. g.size]]],
        1, g.size * g.size)

\* set_value that writes a 0 and leaves the candidates as they are.
set_value_without_recalculation(g, row, col, value) ==
    IF value > 0 THEN PlaceValue(g, row, col, value)
    ELSE [g EXCEPT !.grid[row][col] = value]

set_value(g, row, col, value) ==
    IF value > 0 THEN PlaceValue(g, row, col, value)
    ELSE recalculate_candidates([g EXCEPT !.grid[row][col] = value])

\* remove_candidate that leaves the candidate in its set.
remove_candidate_kept(g, row, col, value) == g

\* remove_candidate: the grid afterwards; the boolean it returns is
\* (value \in get_candidates(g, row, col)) evaluated before the call.
remove_candidate(g, row, col, value) ==
    [g EXCEPT !.candidates[row][col] = @ \ {value}]

get_empty_cells(g) == SelectSeq(AllCells(g.size), LAMBDA p : g.grid[p[1]][p[2]] = 0)

get_box_cells(g, row, col) ==
    {<<r, c>> : r \in box_start_row(g, row) .. (box_start_row(g, row) + g.box_rows - 1),
                c \in box_start_col(g, col) .. (box_start_col(g, col) + g.box_cols - 1)}

get_peers(g, row, col) ==
    ({<<row, c>> : c \in Range(g.size)} \cup {<<r, col>> : r \in Range(g.size)}
        \cup get_box_cells(g, row, col)) \ {<<row, col>>}

\* is_valid: no filled cell whose value occurs again in its row, column or box
\* once the cell itself is cleared. Every return path restores the cell.
is_valid(g) ==
    \A r \in Range(g.size) : \A c \in Range(g.size) :
        LET val == g.grid[r][c]
        IN val = 0 \/
           /\ \A c2 \in Range(g.size) : c2 = c \/ g.grid[r][c2] # val
           /\ \A r2 \in Range(g.size) : r2 = r \/ g.grid[r2][c] # val
           /\ \A p \in get_box_cells(g, r, c) : p = <<r, c>> \/ g.grid[p[1]][p[2]] # val

is_complete(g) ==
    /\ \A r \in Range(g.size) : \A c \in Range(g.size) : g.grid[r][c] # 0
    /\ is_valid(g)

count_clues(g) ==
    Cardinality({p \in Range(g.size) \X Range(g.size) : g.grid[p[1]][p[2]] # 0})

\* copy(): a deep copy; values of the model are immutable, so the copy is the
\* same value and shares nothing with the original.
copy(g) == g

\* The decimal digit characters, '0' first.
DigitChars == <<"0", "1", "2", "3", "4", "5", "6", "7", "8", "9">>

\* str(v) for an integer v >= 0: its decimal digits, most significant first,
\* as a list of characters.
RECURSIVE str(_)
str(v) ==
    IF v < 10 THEN <<DigitChars[v + 1]>>
    ELSE str(v \div 10) \o <<DigitChars[(v % 10) + 1]>>

\* int(char) for a one-character string holding a decimal digit.
int(char) == (CHOOSE d \in 1 .. 10 : DigitChars[d] = char) - 1

\* ''.join(str(grid[r][c]) ...) over the row-major scan positions lo..hi.
RECURSIVE JoinCells(_, _, _)
JoinCells(g, lo, hi) ==
    IF lo > hi THEN <<>>
    ELSE IF lo = hi THEN str(g.grid[(lo - 1) \div g.size][(lo - 1) % g.size])
         ELSE JoinCells(g, lo, Mid(lo, hi)) \o JoinCells(g, Mid(lo, hi) + 1, hi)

\* to_string with the cells taken column by column.
to_string_by_column(g) ==
    JoinCells([g EXCEPT !.grid = [r \in Range(g.size) |-> [c \in Range(g.size) |->
                   g.grid[c][r]]]], 1, g.size * g.size)

\* to_string: a list of characters.
to_string(g) == JoinCells(g, 1, g.size * g.size)

\* The value an out-of-range list index raises.
IndexError == [error |-> "IndexError"]

\* "for i, char in enumerate(s)" of from_string, for the 0-based positions
\* lo..hi. A set_value outside the grid raises IndexError, which ends the loop.
RECURSIVE FromStringLoop(_, _, _, _, _)
FromStringLoop(grid, s, size, lo, hi) ==
    IF lo > hi \/ grid = IndexError THEN grid
    ELSE IF lo = hi
         THEN LET r == lo \div size
                  c == lo % size
                  val == int(s[lo + 1])
              IN IF val > 0
                 THEN (IF r >= grid.size \/ c >= grid.size THEN IndexError
                       ELSE set_value(grid, r, c, val))
                 ELSE grid
         ELSE FromStringLoop(FromStringLoop(grid, s, size, lo, Mid(lo, hi)),
                             s, size, Mid(lo, hi) + 1, hi)

\* from_string: a 6x6 grid when size == 6, a 9x9 grid for every other size;
\* box_rows and box_cols are not used.
from_string(s, size, box_rows, box_cols) ==
    FromStringLoop(IF size = 6 THEN Grid6x6 ELSE Grid9x9, s, size, 0, Len(s) - 1)

\* ------------------------------------------------------------------------
\* techniques.py: the technique library
\* ------------------------------------------------------------------------

\* TechniqueResult. placements is the list of (row, col, value) in the order
\* the source appends them (the solver applies them in that order, skipping a
\* cell that is no longer empty). eliminations is kept as the set of the
\* (row, col, candidate) the source lists: applying an elimination a second
\* time changes nothing and records nothing, so only membership matters.
TechniqueResult(name, level, placements, eliminations) ==
    [name |-> name, level |-> level, placements |-> placements,
     eliminations |-> eliminations]

\* TechniqueResult.__bool__
ResultTruthy(tr) == tr.placements # <<>> \/ tr.eliminations # {}

\* "grid.is_empty(r, c) and num in grid.get_candidates(r, c)"
HasCand(g, p, num) == g.grid[p[1]][p[2]] = 0 /\ num \in g.candidates[p[1]][p[2]]

Cand(g, p) == g.candidates[p[1]][p[2]]

EmptyAt(g, p) == g.grid[p[1]][p[2]] = 0

\* _get_all_units: rows, then columns, then boxes (box rows outermost); unit
\* k of 1..3*size as the set of its cells.
BoxesPerBand(g) == g.size \div g.box_cols

UnitCells(g, k) ==
    IF k <= g.size THEN {<<k - 1, c>> : c \in Range(g.size)}
    ELSE IF k <= 2 * g.size THEN {<<r, k - g.size - 1>> : r \in Range(g.size)}
    ELSE LET b == k - 2 * g.size - 1
         IN get_box_cells(g, (b \div BoxesPerBand(g)) * g.box_rows,
                             (b % BoxesPerBand(g)) * g.box_cols)

_get_all_units(g) == {UnitCells(g, k) : k \in 1 .. (3 * g.size)}

\* The cells of a unit where num is still a candidate.
Positions(g, unit, num) == {p \in unit : HasCand(g, p, num)}

\* The eliminations (r, c, v), v in vals, that are live in the given cells.
ElimIn(g, cells, vals) ==
    {<<x[1][1], x[1][2], x[2]>> : x \in {y \in cells \X vals : HasCand(g, y[1], y[2])}}

KSubsets(S, k) == {T \in SUBSET S : Cardinality(T) = k}

\* Level 1 ---------------------------------------------------------------

NakedSinglePlacements(g) ==
    LET found == SelectSeq(AllCells(g.size),
                    LAMBDA p : EmptyAt(g, p) /\ Cardinality(Cand(g, p)) = 1)
    IN [i \in 1 .. Len(found) |->
          <<found[i][1], found[i][2], CHOOSE v \in Cand(g, found[i]) : TRUE>>]

naked_singles(g) == TechniqueResult("naked_singles", 1, NakedSinglePlacements(g), {})

\* The rows loop, the columns loop and the boxes loop visit the units in the
\* order of _get_all_units, each with num ascending inside: i in 1..3*size*size
\* numbers the (unit, num) pairs in that order. A (row, col, num) already
\* listed is not appended again.
HiddenSingleAt(g, i) ==
    LET num == ((i - 1) % g.size) + 1
        positions == Positions(g, UnitCells(g, ((i - 1) \div g.size) + 1), num)
    IN IF Cardinality(positions) = 1
       THEN LET p == CHOOSE q \in positions : TRUE IN <<p[1], p[2], num>>
       ELSE <<>>

HiddenSinglePlacements(g) ==
    LET all == [i \in 1 .. (3 * g.size * g.size) |-> HiddenSingleAt(g, i)]
        kept == SelectSeq([i \in 1 .. Len(all) |-> i],
                    LAMBDA i : all[i] # <<>> /\ \A j \in 1 .. (i - 1) : all[j] # all[i])
    IN [k \in 1 .. Len(kept) |-> all[kept[k]]]

hidden_singles(g) == TechniqueResult("hidden_singles", 1, HiddenSinglePlacements(g), {})

\* Level 2 ---------------------------------------------------------------

\* The naked-pair eliminations taken from every cell of the unit, the two
\* cells of the pair included.
NakedPairElimsWholeUnit(g) ==
    UNION {
        LET pair_cells == {p \in unit : EmptyAt(g, p) /\ Cardinality(Cand(g, p)) = 2}
        IN UNION {
             LET cands1 == Cand(g, CHOOSE p \in pr : TRUE)
             IN IF \A p \in pr : Cand(g, p) = cands1
                THEN ElimIn(g, unit, cands1)
                ELSE {}
             : pr \in KSubsets(pair_cells, 2)}
        : unit \in _get_all_units(g)}

NakedPairElims(g) ==
    UNION {
        LET pair_cells == {p \in unit : EmptyAt(g, p) /\ Cardinality(Cand(g, p)) = 2}
        IN UNION {
             LET cands1 == Cand(g, CHOOSE p \in pr : TRUE)
             IN IF \A p \in pr : Cand(g, p) = cands1
                THEN ElimIn(g, unit \ pr, cands1)
                ELSE {}
             : pr \in KSubsets(pair_cells, 2)}
        : unit \in _get_all_units(g)}

\* naked_pairs reporting its eliminations under the name of naked_triples.
naked_pairs_misnamed(g) == TechniqueResult("naked_triples", 2, <<>>, NakedPairElims(g))

naked_pairs(g) == TechniqueResult("naked_pairs", 2, <<>>, NakedPairElims(g))

HiddenPairElims(g) ==
    UNION {
        LET cands_in_two ==
                {cand \in 1 .. g.size : Cardinality(Positions(g, unit, cand)) = 2}
        IN UNION {
             LET cand1 == CHOOSE x \in cp : TRUE
                 cand2 == CHOOSE x \in cp : x # cand1
             IN IF Positions(g, unit, cand1) = Positions(g, unit, cand2)
                THEN {<<x[1][1], x[1][2], x[2]>> :
                        x \in {y \in Positions(g, unit, cand1) \X (1 .. g.size) :
                                 y[2] \in Cand(g, y[1]) /\ y[2] \notin cp}}
                ELSE {}
             : cp \in KSubsets(cands_in_two, 2)}
        : unit \in _get_all_units(g)}

hidden_pairs(g) == TechniqueResult("hidden_pairs", 2, <<>>, HiddenPairElims(g))

\* Level 3 ---------------------------------------------------------------

NakedTripleElims(g) ==
    UNION {
        LET triple_candidates ==
                {p \in unit : /\ EmptyAt(g, p)
                              /\ Cardinality(Cand(g, p)) >= 2
                              /\ Cardinality(Cand(g, p)) <= 3}
        IN UNION {
             LET all_cands == UNION {Cand(g, p) : p \in cells}
             IN IF Cardinality(all_cands) = 3
                THEN ElimIn(g, unit \ cells, all_cands)
                ELSE {}
             : cells \in KSubsets(triple_candidates, 3)}
        : unit \in _get_all_units(g)}

naked_triples(g) == TechniqueResult("naked_triples", 3, <<>>, NakedTripleElims(g))

HiddenTripleElims(g) ==
    UNION {
        LET eligible_cands ==
                {cand \in 1 .. g.size :
                    /\ Cardinality(Positions(g, unit, cand)) >= 2
                    /\ Cardinality(Positions(g, unit, cand)) <= 3}
        IN UNION {
             LET all_positions == UNION {Positions(g, unit, cand) : cand \in cand_triple}
             IN IF Cardinality(all_positions) = 3
                THEN {<<x[1][1], x[1][2], x[2]>> :
                        x \in {y \in all_positions \X (1 .. g.size) :
                                 y[2] \in Cand(g, y[1]) /\ y[2] \notin cand_triple}}
                ELSE {}
             : cand_triple \in KSubsets(eligible_cands, 3)}
        : unit \in _get_all_units(g)}

hidden_triples(g) == TechniqueResult("hidden_triples", 3, <<>>, HiddenTripleElims(g))

\* The boxes, each as the pair of its first row and first column.
BoxStarts(g) ==
    {<<br * g.box_rows, bc * g.box_cols>> :
        br \in Range(g.size \div g.box_rows), bc \in Range(g.size \div g.box_cols)}

PointingPairElims(g) ==
    UNION {
        LET box_r == x[1][1]
            box_c == x[1][2]
            num == x[2]
            positions == Positions(g, get_box_cells(g, box_r, box_c), num)
            rows == {p[1] : p \in positions}
            cols == {p[2] : p \in positions}
        IN IF Cardinality(positions) >= 2
           THEN (IF Cardinality(rows) = 1
                 THEN {<<r, c, num>> : r \in rows,
                         c \in {c2 \in Range(g.size) :
                                  /\ (c2 < box_c \/ c2 >= box_c + g.box_cols)
                                  /\ \A r2 \in rows : HasCand(g, <<r2, c2>>, num)}}
                 ELSE {})
                \cup
                (IF Cardinality(cols) = 1
                 THEN {<<r, c, num>> : c \in cols,
                         r \in {r2 \in Range(g.size) :
                                  /\ (r2 < box_r \/ r2 >= box_r + g.box_rows)
                                  /\ \A c2 \in cols : HasCand(g, <<r2, c2>>, num)}}
                 ELSE {})
           ELSE {}
        : x \in BoxStarts(g) \X (1 .. g.size)}

pointing_pairs(g) == TechniqueResult("pointing_pairs", 3, <<>>, PointingPairElims(g))

\* One line (a row when byRow, else a column) of box_line_reduction.
BoxLineElimsOf(g, byRow, line, num) ==
    LET lineCells == IF byRow THEN {<<line, c>> : c \in Range(g.size)}
                     ELSE {<<r, line>> : r \in Range(g.size)}
        positions == Positions(g, lineCells, num)
        boxes == {<<p[1] \div g.box_rows, p[2] \div g.box_cols>> : p \in positions}
    IN IF Cardinality(positions) >= 2 /\ Cardinality(boxes) = 1
       THEN LET b == CHOOSE y \in boxes : TRUE
                boxCells == get_box_cells(g, b[1] * g.box_rows, b[2] * g.box_cols)
            IN {<<p[1], p[2], num>> :
                  p \in {q \in boxCells : /\ (IF byRow THEN q[1] # line ELSE q[2] # line)
                                          /\ HasCand(g, q, num)}}
       ELSE {}

BoxLineElims(g) ==
    UNION {BoxLineElimsOf(g, x[1], x[2], x[3]) :
             x \in BOOLEAN \X Range(g.size) \X (1 .. g.size)}

box_line_reduction(g) ==
    TechniqueResult("box_line_reduction", 3, <<>>, BoxLineElims(g))

\* Level 4 ---------------------------------------------------------------

\* The columns of row r where num is a candidate (byRow), or the rows of
\* column r where it is (not byRow).
LineCands(g, byRow, line, num) ==
    {k \in Range(g.size) :
        HasCand(g, IF byRow THEN <<line, k>> ELSE <<k, line>>, num)}

\* The fish eliminations of one orientation: lines is the set of base lines
\* (rows when byRow), cover the set of covering lines (columns when byRow).
FishElims(g, byRow, lines, cover, num) ==
    {<<p[1], p[2], num>> :
       p \in {q \in Range(g.size) \X Range(g.size) :
                /\ (IF byRow THEN q[1] \notin lines /\ q[2] \in cover
                             ELSE q[2] \notin lines /\ q[1] \in cover)
                /\ HasCand(g, q, num)}}

XWingElims(g) ==
    UNION {
        LET byRow == x[1]
            num == x[2]
            with_two == {l \in Range(g.size) :
                           Cardinality(LineCands(g, byRow, l, num)) = 2}
        IN UNION {
             LET l1 == CHOOSE l \in pr : TRUE
             IN IF \A l \in pr : LineCands(g, byRow, l, num) = LineCands(g, byRow, l1, num)
                THEN FishElims(g, byRow, pr, LineCands(g, byRow, l1, num), num)
                ELSE {}
             : pr \in KSubsets(with_two, 2)}
        : x \in BOOLEAN \X (1 .. g.size)}

x_wing(g) == TechniqueResult("x_wing", 4, <<>>, XWingElims(g))

BiValueCells(g) ==
    {p \in Range(g.size) \X Range(g.size) :
        EmptyAt(g, p) /\ Cardinality(Cand(g, p)) = 2}

Peers(g, p) == get_peers(g, p[1], p[2])

\* For a pivot with candidates {X, Y}: a wing is a bivalue peer holding exactly
\* one of them; wings_xz hold X, wings_yz hold Y, Z being the wing's other
\* candidate. Every pair of an XZ wing and a YZ wing with the same Z removes Z
\* from the common peers of the two wings.
YWingElims(g) ==
    UNION {
        LET pivot_peers == Peers(g, pivot)
            wings == {w \in BiValueCells(g) :
                        w \in pivot_peers /\ Cardinality(Cand(g, w) \cap Cand(g, pivot)) = 1}
        IN UNION {
             LET w1 == wp[1]
                 w2 == wp[2]
                 z1 == Cand(g, w1) \ Cand(g, pivot)
                 z2 == Cand(g, w2) \ Cand(g, pivot)
             IN IF /\ Cand(g, w1) \cap Cand(g, pivot) # Cand(g, w2) \cap Cand(g, pivot)
                   /\ z1 = z2
                THEN ElimIn(g, Peers(g, w1) \cap Peers(g, w2), z1)
                ELSE {}
             : wp \in wings \X wings}
        : pivot \in BiValueCells(g)}

y_wing(g) == TechniqueResult("y_wing", 4, <<>>, YWingElims(g))

\* Level 5 ---------------------------------------------------------------

SwordfishElims(g) ==
    UNION {
        LET byRow == x[1]
            num == x[2]
            candidate_lines ==
                {l \in Range(g.size) :
                    /\ Cardinality(LineCands(g, byRow, l, num)) >= 2
                    /\ Cardinality(LineCands(g, byRow, l, num)) <= 3}
        IN UNION {
             LET all_cover == UNION {LineCands(g, byRow, l, num) : l \in tr}
             IN IF Cardinality(all_cover) = 3
                THEN FishElims(g, byRow, tr, all_cover, num)
                ELSE {}
             : tr \in KSubsets(candidate_lines, 3)}
        : x \in BOOLEAN \X (1 .. g.size)}

swordfish(g) == TechniqueResult("swordfish", 5, <<>>, SwordfishElims(g))

XYZWingElims(g) ==
    UNION {
        LET pivot_cands == Cand(g, pivot)
            peer_bivalues ==
                {w \in Peers(g, pivot) :
                    /\ EmptyAt(g, w)
                    /\ Cardinality(Cand(g, w)) = 2
                    /\ Cand(g, w) \subseteq pivot_cands}
        IN UNION {
             LET w1 == CHOOSE w \in wp : TRUE
                 w2 == CHOOSE w \in wp : w # w1
                 Z == Cand(g, w1) \cap Cand(g, w2)
             IN IF Cand(g, w1) \cup Cand(g, w2) = pivot_cands /\ Cardinality(Z) = 1
                THEN ElimIn(g, Peers(g, pivot) \cap Peers(g, w1) \cap Peers(g, w2), Z)
                ELSE {}
             : wp \in KSubsets(peer_bivalues, 2)}
        : pivot \in {p \in Range(g.size) \X Range(g.size) :
                        EmptyAt(g, p) /\ Cardinality(Cand(g, p)) = 3}}

xyz_wing(g) == TechniqueResult("xyz_wing", 5, <<>>, XYZWingElims(g))

\* The technique registry --------------------------------------------------

\* TECHNIQUES: (technique, level) in registration order.
TECHNIQUES ==
    << <<"naked_singles", 1>>, <<"hidden_singles", 1>>,
       <<"naked_pairs", 2>>, <<"hidden_pairs", 2>>,
       <<"naked_triples", 3>>, <<"hidden_triples", 3>>,
       <<"pointing_pairs", 3>>, <<"box_line_reduction", 3>>,
       <<"x_wing", 4>>, <<"y_wing", 4>>,
       <<"swordfish", 5>>, <<"xyz_wing", 5>> >>

\* technique_fn(work_grid) for the registry entry of the given name.
technique_fn(name, g) ==
    CASE name = "naked_singles" -> naked_singles(g)
      [] name = "hidden_singles" -> hidden_singles(g)
      [] name = "naked_pairs" -> naked_pairs(g)
      [] name = "hidden_pairs" -> hidden_pairs(g)
      [] name = "naked_triples" -> naked_triples(g)
      [] name = "hidden_triples" -> hidden_triples(g)
      [] name = "pointing_pairs" -> pointing_pairs(g)
      [] name = "box_line_reduction" -> box_line_reduction(g)
      [] name = "x_wing" -> x_wing(g)
      [] name = "y_wing" -> y_wing(g)
      [] name = "swordfish" -> swordfish(g)
      [] name = "xyz_wing" -> xyz_wing(g)

\* ------------------------------------------------------------------------
\* solver.py: SolveResult, SudokuSolver, count_solutions
\* ------------------------------------------------------------------------

\* Python's None, where a grid or a result may be absent.
None == [none |-> TRUE]

SolveResult(solved, grid) ==
    [solved |-> solved, grid |-> grid, techniques_used |-> {},
     max_technique_level |-> 0, steps |-> <<>>, used_backtracking |-> FALSE]

\* add_technique with "self.max_technique_level = level".
add_technique_last_level(res, name, level, description) ==
    [res EXCEPT !.techniques_used = @ \cup {name},
                !.max_technique_level = level,
                !.steps = Append(@, <<name, level, description>>)]

\* A step is (technique_name, level, description); the description string
\* "R{r+1}C{c+1}={val}" / "R{r+1}C{c+1} remove {val}" is kept as a tuple.
add_technique(res, name, level, description) ==
    [res EXCEPT !.techniques_used = @ \cup {name},
                !.max_technique_level = Max2(@, level),
                !.steps = Append(@, <<name, level, description>>)]

\* "for r, c, val in technique_result.placements: if work_grid.is_empty(r, c): ..."
\* for the list positions lo..hi. st is [res, changed]; res.grid is the work grid.
RECURSIVE ApplyPlacements(_, _, _, _)
ApplyPlacements(st, tr, lo, hi) ==
    IF lo > hi THEN st
    ELSE IF lo = hi
         THEN LET pl == tr.placements[lo]
              IN IF is_empty(st.res.grid, pl[1], pl[2])
                 THEN [res |-> add_technique(
                                 [st.res EXCEPT !.grid = set_value(@, pl[1], pl[2], pl[3])],
                                 tr.name, tr.level, <<"=", pl[1], pl[2], pl[3]>>),
                       changed |-> TRUE]
                 ELSE st
         ELSE LET first == ApplyPlacements(st, tr, lo, Mid(lo, hi))
              IN IF Strict(first) THEN ApplyPlacements(first, tr, Mid(lo, hi) + 1, hi)
                 ELSE st

\* The eliminations of a result in ascending (row, col, value) order.
ElimSeq(elims) ==
    LET keys == SortedSeq({e[1] * 100 + e[2] * 10 + e[3] : e \in elims})
    IN [i \in 1 .. Len(keys) |->
          <<keys[i] \div 100, (keys[i] \div 10) % 10, keys[i] % 10>>]

\* "for r, c, val in technique_result.eliminations: if work_grid.remove_candidate(...)"
\* for the list positions lo..hi.
\* ApplyEliminations without "result.add_technique(...)": the candidates are
\* removed and no step is recorded.
RECURSIVE ApplyEliminationsUnrecorded(_, _, _, _, _)
ApplyEliminationsUnrecorded(st, tr, elims, lo, hi) ==
    IF lo > hi THEN st
    ELSE IF lo = hi
         THEN LET e == elims[lo]
              IN IF e[3] \in get_candidates(st.res.grid, e[1], e[2])
                 THEN [res |-> [st.res EXCEPT !.grid = remove_candidate(@, e[1], e[2], e[3])],
                       changed |-> TRUE]
                 ELSE st
         ELSE LET first == ApplyEliminationsUnrecorded(st, tr, elims, lo, Mid(lo, hi))
              IN IF Strict(first)
                 THEN ApplyEliminationsUnrecorded(first, tr, elims, Mid(lo, hi) + 1, hi)
                 ELSE st

RECURSIVE ApplyEliminations(_, _, _, _, _)
ApplyEliminations(st, tr, elims, lo, hi) ==
    IF lo > hi THEN st
    ELSE IF lo = hi
         THEN LET e == elims[lo]
              IN IF e[3] \in get_candidates(st.res.grid, e[1], e[2])
                 THEN [res |-> add_technique(
                                 [st.res EXCEPT !.grid = remove_candidate(@, e[1], e[2], e[3])],
                                 tr.name, tr.level, <<"remove", e[1], e[2], e[3]>>),
                       changed |-> TRUE]
                 ELSE st
         ELSE LET first == ApplyEliminations(st, tr, elims, lo, Mid(lo, hi))
              IN IF Strict(first)
                 THEN ApplyEliminations(first, tr, elims, Mid(lo, hi) + 1, hi)
                 ELSE st

\* The body of "if technique_result:" in solve.
ApplyResult(res, tr) ==
    LET placed == ApplyPlacements([res |-> res, changed |-> FALSE], tr,
                                  1, Len(tr.placements))
        elims == ElimSeq(tr.eliminations)
    IN ApplyEliminations(placed, tr, elims, 1, Len(elims))

\* TechniquePass with "if level != self.max_level: continue".
RECURSIVE TechniquePassAtCeilingOnly(_, _, _, _)
TechniquePassAtCeilingOnly(st, max_level, lo, hi) ==
    IF lo > hi \/ st.changed THEN st
    ELSE IF lo = hi
         THEN IF TECHNIQUES[lo][2] # max_level THEN st
              ELSE LET tr == technique_fn(TECHNIQUES[lo][1], st.res.grid)
                   IN IF ResultTruthy(tr) THEN ApplyResult(st.res, tr) ELSE st
         ELSE TechniquePassAtCeilingOnly(
                  TechniquePassAtCeilingOnly(st, max_level, lo, Mid(lo, hi)),
                  max_level, Mid(lo, hi) + 1, hi)

\* TechniquePass without "if changed: break": the pass goes on to the later
\* entries after a change.
RECURSIVE TechniquePassWithoutBreak(_, _, _, _)
TechniquePassWithoutBreak(st, max_level, lo, hi) ==
    IF lo > hi \/ ~Strict(st) THEN st
    ELSE IF lo = hi
         THEN IF TECHNIQUES[lo][2] > max_level THEN st
              ELSE LET tr == technique_fn(TECHNIQUES[lo][1], st.res.grid)
                       applied == ApplyResult(st.res, tr)
                   IN IF ResultTruthy(tr)
                      THEN [applied EXCEPT !.changed = @ \/ st.changed]
                      ELSE st
         ELSE TechniquePassWithoutBreak(
                  TechniquePassWithoutBreak(st, max_level, lo, Mid(lo, hi)),
                  max_level, Mid(lo, hi) + 1, hi)

\* One pass of "for technique_fn, level in TECHNIQUES" over the registry
\* entries lo..hi: entries above max_level are skipped, and the first entry
\* whose result changes the grid ends the pass ("break"). st is [res, changed].
RECURSIVE TechniquePass(_, _, _, _)
TechniquePass(st, max_level, lo, hi) ==
    IF lo > hi \/ st.changed THEN st
    ELSE IF lo = hi
         THEN IF TECHNIQUES[lo][2] > max_level THEN st
              ELSE LET tr == technique_fn(TECHNIQUES[lo][1], st.res.grid)
                   IN IF ResultTruthy(tr) THEN ApplyResult(st.res, tr) ELSE st
         ELSE TechniquePass(TechniquePass(st, max_level, lo, Mid(lo, hi)),
                            max_level, Mid(lo, hi) + 1, hi)

\* Every pass that changes the grid fills a cell or removes a candidate, so
\* the while loop of solve runs at most this many passes; a loop that has
\* not halted after them is reported as running (halted = FALSE).
MaxPasses(g) == g.size * g.size * (g.size + 1) + 1

\* "while changed and not work_grid.is_complete()": n more iterations at most.
\* st is [res, changed, halted]; halted is set when the loop condition fails.
RECURSIVE TechniqueLoop(_, _, _)
TechniqueLoop(st, max_level, n) ==
    IF st.halted \/ n = 0 THEN st
    ELSE IF n = 1
         THEN IF st.changed /\ ~is_complete(st.res.grid)
              THEN LET pass == TechniquePass([res |-> st.res, changed |-> FALSE],
                                             max_level, 1, Len(TECHNIQUES))
                   IN [res |-> pass.res, changed |-> pass.changed, halted |-> FALSE]
              ELSE [st EXCEPT !.halted = TRUE]
         ELSE TechniqueLoop(TechniqueLoop(st, max_level, n \div 2),
                            max_level, n - (n \div 2))

\* FewestCandidatesCell without "empty_cells.sort(key=...)": the first empty
\* cell in scan order.
FirstEmptyCell(g) == get_empty_cells(g)[1]

\* The first empty cell with the fewest candidates: a stable sort of the
\* row-major list of empty cells by candidate count, then element 0.
FewestCandidatesCell(g) ==
    LET empty == get_empty_cells(g)
        m == CHOOSE k \in 0 .. g.size :
                /\ \E i \in 1 .. Len(empty) : Cardinality(Cand(g, empty[i])) = k
                /\ \A i \in 1 .. Len(empty) : Cardinality(Cand(g, empty[i])) >= k
        first == CHOOSE i \in 1 .. Len(empty) :
                    /\ Cardinality(Cand(g, empty[i])) = m
                    /\ \A j \in 1 .. (i - 1) : Cardinality(Cand(g, empty[j])) # m
    IN empty[first]

\* The turns of the search loop the model follows a backtracking search for.
MaxSearchSteps == 4096

\* _backtrack_solve, the recursion unfolded: st is [stack, found, done], stack
\* the calls under way, innermost last, each [g, cell, candidates, i] with i
\* the position of "for value in candidates"; found is the value returned by
\* the outermost call once done holds.

\* A call returns value to its caller: "if result: return result" hands a
\* grid on to the outermost caller; after None the caller's loop goes on.
BacktrackReturn(st, value) ==
    IF value # None \/ st.stack = <<>>
    THEN [stack |-> <<>>, found |-> value, done |-> TRUE]
    ELSE st

\* _backtrack_solve(g) is called: a grid without an empty cell is returned when
\* it is valid; the cell with the fewest candidates is chosen, and without a
\* candidate None is returned; the candidates are tried in ascending order.
BacktrackEnter(st, g) ==
    IF get_empty_cells(g) = <<>>
    THEN BacktrackReturn(st, IF is_valid(g) THEN copy(g) ELSE None)
    ELSE LET cell == FewestCandidatesCell(g)
             candidates == SortedSeq(Cand(g, cell))
         IN IF candidates = <<>> THEN BacktrackReturn(st, None)
            ELSE [st EXCEPT !.stack = Append(@, [g |-> copy(g), cell |-> cell,
                                                 candidates |-> candidates, i |-> 1])]

\* One turn of "for value in candidates" in the innermost call: the value is
\* set in a copy, and a valid copy is searched; past the last value the call
\* returns None.
BacktrackTry(st) ==
    LET top == st.stack[Len(st.stack)]
        rest == [st EXCEPT !.stack = SubSeq(@, 1, Len(@) - 1)]
        next == [st EXCEPT !.stack[Len(st.stack)].i = @ + 1]
    IN IF top.i > Len(top.candidates) THEN BacktrackReturn(rest, None)
       ELSE LET test_grid == set_value(copy(top.g), top.cell[1], top.cell[2],
                                       top.candidates[top.i])
            IN IF is_valid(test_grid) THEN BacktrackEnter(next, test_grid)
               ELSE next

\* n turns at most, until the outermost call has returned.
RECURSIVE BacktrackRun(_, _)
BacktrackRun(st, n) ==
    IF st.done \/ n = 0 THEN st
    ELSE IF n = 1 THEN BacktrackTry(st)
         ELSE BacktrackRun(BacktrackRun(st, n \div 2), n - n \div 2)

\* _backtrack_solve: the first completion found, or None; a search that has
\* not returned within MaxSearchSteps turns has no value.
_backtrack_solve(g) ==
    LET end == BacktrackRun(BacktrackEnter([stack |-> <<>>, found |-> None,
                                            done |-> FALSE], g),
                            MaxSearchSteps)
    IN IF end.done THEN end.found ELSE [unfinished |-> end.stack]

\* The end of solve, after the while loop: res is the result so far, res.grid
\* the work grid.
SolveEnd(res, allow_backtracking) ==
    IF is_complete(res.grid) THEN [res EXCEPT !.solved = TRUE]
    ELSE IF allow_backtracking
         THEN LET backtrack_result == _backtrack_solve(res.grid)
              IN IF backtrack_result # None
                 THEN add_technique(
                        [res EXCEPT !.solved = TRUE,
                                    !.grid = backtrack_result,
                                    !.used_backtracking = TRUE],
                        "backtracking", 6, <<"Trial and error">>)
                 ELSE res
         ELSE res

\* SudokuSolver(max_level, allow_backtracking).solve(grid)
solve(max_level, allow_backtracking, grid) ==
    SolveEnd(TechniqueLoop([res |-> SolveResult(FALSE, copy(grid)),
                            changed |-> TRUE, halted |-> FALSE],
                           max_level, MaxPasses(grid)).res,
             allow_backtracking)

\* analyze_difficulty, an attempt that solved: the result takes the attempt's
\* grid, techniques, level and steps.
AnalyzeSolved(res, attempt) ==
    [res EXCEPT !.solved = TRUE,
                !.grid = attempt.grid,
                !.techniques_used = attempt.techniques_used,
                !.max_technique_level = attempt.max_technique_level,
                !.steps = attempt.steps]

\* analyze_difficulty, an attempt that did not solve: its techniques, level
\* and steps are merged into the result.
AnalyzeMerge(res, attempt) ==
    [res EXCEPT !.techniques_used = @ \cup attempt.techniques_used,
                !.max_technique_level = Max2(@, attempt.max_technique_level),
                !.steps = @ \o attempt.steps]

\* AnalyzeFallback without "result.max_technique_level = 6" and
\* "result.add_technique(...)": the completion is returned unrecorded.
AnalyzeFallbackUnrecorded(res, work, allow_backtracking) ==
    IF allow_backtracking
    THEN LET backtrack_result == _backtrack_solve(work)
         IN IF backtrack_result # None
            THEN [res EXCEPT !.solved = TRUE,
                             !.grid = backtrack_result,
                             !.used_backtracking = TRUE]
            ELSE res
    ELSE res

\* analyze_difficulty after the last ceiling: backtracking on the work grid
\* when the instance allows it.
AnalyzeFallback(res, work, allow_backtracking) ==
    IF allow_backtracking
    THEN LET backtrack_result == _backtrack_solve(work)
         IN IF backtrack_result # None
            THEN add_technique(
                   [res EXCEPT !.solved = TRUE,
                               !.grid = backtrack_result,
                               !.used_backtracking = TRUE,
                               !.max_technique_level = 6],
                   "backtracking", 6, <<"Trial and error">>)
            ELSE res
    ELSE res

\* "for max_lvl in range(1, 6)" of analyze_difficulty, from ceiling lvl on.
\* res is the merged result so far, work the grid carried over.
RECURSIVE AnalyzeFrom(_, _, _, _)
AnalyzeFrom(allow_backtracking, res, work, lvl) ==
    IF lvl > 5 THEN AnalyzeFallback(res, work, allow_backtracking)
    ELSE LET attempt == solve(lvl, FALSE, work)
         IN IF attempt.solved THEN AnalyzeSolved(res, attempt)
            ELSE AnalyzeFrom(allow_backtracking, AnalyzeMerge(res, attempt),
                             attempt.grid, lvl + 1)

\* SudokuSolver(max_level, allow_backtracking).analyze_difficulty(grid); the
\* ceilings it tries do not depend on the instance's own max_level.
analyze_difficulty(max_level, allow_backtracking, grid) ==
    AnalyzeFrom(allow_backtracking, SolveResult(FALSE, None), grid, 1)

\* "if count[0] > limit: return"
LimitPassed(count, limit) == count > limit

\* "if count[0] >= limit: return" at the head of solve_count.
LimitReached(count, limit) == count >= limit

\* solve_count inside count_solutions: the counter after exploring g.
\* SolveCountTry is "for val in list(g.get_candidates(row, col))" over the
\* list positions lo..hi, the values in ascending order.
RECURSIVE solve_count(_, _, _)
RECURSIVE SolveCountTry(_, _, _, _, _, _, _)
solve_count(g, count, limit) ==
    IF LimitReached(count, limit) THEN count
    ELSE IF get_empty_cells(g) = <<>>
         THEN (IF is_valid(g) THEN count + 1 ELSE count)
         ELSE LET cell == FewestCandidatesCell(g)
                  vals == SortedSeq(Cand(g, cell))
              IN SolveCountTry(g, cell, vals, 1, Len(vals), count, limit)

SolveCountTry(g, cell, vals, lo, hi, count, limit) ==
    IF lo > hi THEN count
    ELSE IF lo = hi
         THEN LET new_grid == set_value(copy(g), cell[1], cell[2], vals[lo])
              IN IF is_valid(new_grid) THEN solve_count(new_grid, count, limit)
                 ELSE count
         ELSE SolveCountTry(g, cell, vals, Mid(lo, hi) + 1, hi,
                  SolveCountTry(g, cell, vals, lo, Mid(lo, hi), count, limit), limit)

count_solutions(grid, limit) == solve_count(copy(grid), 0, limit)

has_unique_solution(grid) == count_solutions(grid, 2) = 1

\* ------------------------------------------------------------------------
\* generator.py: the random source, GeneratorResult, SudokuGenerator
\* ------------------------------------------------------------------------

\* An optional argument that was given (None when it was not).
Some(v) == [some |-> v]

\* The outcomes of random.shuffle. A source is either a pseudo-random stream
\* (a 16-bit linear congruential generator started from a seed) or a recorded
\* stream of draws that is replayed from its start. rng is
\* [tape, s, calls]: tape tells which, s is the generator's state or the
\* position on the record, calls counts the shuffles made so far. A stream
\* may fade: with fades = n > 0 every draw after the n-th shuffle is 0
\* (fades = 0: never).
NextRand(s) == (25173 * s + 13849) % 65536

\* One recorded stream: the draws of a run of the generator on a 9x9 grid (the
\* 81 shuffles of the fill, 8 draws each, then the 80 draws of the shuffle of
\* the cells).
RecordedDraws ==
    << 8, 6, 5, 4, 3, 2, 1, 0, 8, 7, 6, 5, 4, 2, 1, 0, 8, 7, 6, 5, 4, 3, 2, 0, 8, 7,
       6, 5, 4, 3, 1, 0, 8, 7, 6, 5, 4, 3, 2, 1, 8, 7, 5, 4, 3, 2, 1, 0, 8, 7, 6, 5,
       3, 2, 1, 0, 7, 6, 5, 4, 3, 2, 1, 0, 8, 7, 6, 4, 3, 2, 1, 0, 8, 7, 6, 5, 4, 3,
       1, 0, 8, 7, 6, 5, 4, 3, 2, 1, 8, 7, 6, 4, 3, 2, 1, 0, 8, 7, 6, 5, 4, 3, 2, 0,
       7, 6, 5, 4, 3, 2, 1, 0, 8, 7, 6, 5, 3, 2, 1, 0, 8, 6, 5, 4, 3, 2, 1, 0, 8, 7,
       5, 4, 3, 2, 1, 0, 8, 7, 6, 5, 4, 2, 1, 0, 8, 7, 6, 5, 3, 2, 1, 0, 8, 7, 5, 4,
       3, 2, 1, 0, 7, 6, 5, 4, 3, 2, 1, 0, 8, 7, 6, 5, 4, 2, 1, 0, 8, 7, 6, 4, 3, 2,
       1, 0, 8, 6, 5, 4, 3, 2, 1, 0, 8, 7, 6, 5, 4, 3, 2, 0, 8, 7, 6, 5, 4, 3, 2, 1,
       8, 7, 6, 5, 4, 3, 1, 0, 8, 7, 6, 5, 4, 3, 2, 0, 8, 6, 5, 4, 3, 2, 1, 0, 8, 7,
       6, 5, 4, 3, 2, 1, 8, 7, 5, 4, 3, 2, 1, 0, 8, 7, 6, 5, 4, 2, 1, 0, 8, 7, 6, 4,
       3, 2, 1, 0, 7, 6, 5, 4, 3, 2, 1, 0, 8, 7, 6, 5, 4, 3, 1, 0, 8, 7, 6, 5, 3, 2,
       1, 0, 8, 7, 5, 4, 3, 2, 1, 0, 8, 7, 6, 5, 4, 3, 1, 0, 8, 7, 6, 5, 3, 2, 1, 0,
       7, 6, 5, 4, 3, 2, 1, 0, 8, 7, 6, 5, 4, 3, 2, 0, 8, 7, 6, 5, 4, 3, 2, 1, 8, 7,
       6, 4, 3, 2, 1, 0, 8, 7, 6, 5, 4, 2, 1, 0, 8, 6, 5, 4, 3, 2, 1, 0, 8, 7, 6, 4,
       3, 2, 1, 0, 7, 6, 5, 4, 3, 2, 1, 0, 8, 7, 6, 5, 4, 2, 1, 0, 8, 7, 6, 5, 3, 2,
       1, 0, 8, 6, 5, 4, 3, 2, 1, 0, 8, 7, 6, 5, 4, 3, 1, 0, 8, 7, 6, 5, 4, 3, 2, 1,
       8, 7, 6, 5, 4, 3, 2, 0, 8, 7, 5, 4, 3, 2, 1, 0, 8, 7, 6, 5, 4, 3, 2, 1, 8, 7,
       6, 5, 3, 2, 1, 0, 8, 7, 6, 5, 4, 3, 1, 0, 8, 6, 5, 4, 3, 2, 1, 0, 8, 7, 5, 4,
       3, 2, 1, 0, 8, 7, 6, 5, 4, 3, 2, 0, 8, 7, 6, 5, 4, 2, 1, 0, 8, 7, 6, 4, 3, 2,
       1, 0, 7, 6, 5, 4, 3, 2, 1, 0, 8, 7, 6, 5, 4, 2, 1, 0, 8, 7, 6, 4, 3, 2, 1, 0,
       8, 6, 5, 4, 3, 2, 1, 0, 8, 7, 6, 5, 4, 3, 2, 1, 8, 7, 6, 5, 4, 3, 1, 0, 7, 6,
       5, 4, 3, 2, 1, 0, 8, 7, 5, 4, 3, 2, 1, 0, 8, 7, 6, 5, 3, 2, 1, 0, 8, 7, 6, 5,
       4, 3, 2, 0, 7, 6, 5, 4, 3, 2, 1, 0, 8, 7, 6, 5, 4, 3, 2, 0, 8, 7, 5, 4, 3, 2,
       1, 0, 8, 7, 6, 4, 3, 2, 1, 0, 8, 7, 6, 5, 3, 2, 1, 0, 8, 7, 6, 5, 4, 2, 1, 0,
       8, 7, 6, 5, 4, 3, 1, 0, 8, 6, 5, 4, 3, 2, 1, 0, 8, 7, 6, 5, 4, 3, 2, 1, 78, 76,
       75, 74, 73, 72, 69, 67, 63, 62, 61, 56, 55, 54, 52, 50, 49, 48, 46, 45, 44, 42, 40, 39, 38, 35, 33, 32,
       31, 28, 23, 21, 20, 19, 15, 14, 11, 8, 6, 3, 20, 33, 38, 15, 14, 35, 31, 23, 21, 11, 6, 20, 23, 21,
       23, 19, 8, 3, 15, 14, 11, 6, 11, 14, 3, 6, 8, 6, 11, 8, 3, 6, 8, 3, 6, 3, 3, 3, 2, 1 >>

\* The draw j in 0..n-1 that the source gives next.
RandBelow(rng, n) ==
    IF rng.fades > 0 /\ rng.calls > rng.fades THEN 0
    ELSE IF rng.tape THEN RecordedDraws[rng.s + 1] % n
         ELSE (NextRand(rng.s) * n) \div 65536

Advance(rng) ==
    IF rng.tape THEN [rng EXCEPT !.s = (@ + 1) % Len(RecordedDraws)]
    ELSE [rng EXCEPT !.s = NextRand(@)]

\* "x[i], x[j] = x[j], x[i]" on a list (positions from 1); the concatenation
\* keeps the list an explicit tuple.
Swap(x, a, b) == [x EXCEPT ![a] = x[b], ![b] = x[a]] \o <<>>

\* random.shuffle(x): for i = len(x)-1 down to 1, swap x[i] with x[j], j drawn
\* from 0..i. ShuffleSteps runs the steps lo..hi, step t having i = len(x)-t.
\* st is [x, rng].
RECURSIVE ShuffleSteps(_, _, _)
ShuffleSteps(st, lo, hi) ==
    IF lo > hi THEN st
    ELSE IF lo = hi
         THEN LET i == Len(st.x) - lo
                  j == RandBelow(st.rng, i + 1)
              IN [x |-> Swap(st.x, i + 1, j + 1), rng |-> Advance(st.rng)]
         ELSE LET first == ShuffleSteps(st, lo, Mid(lo, hi))
              IN IF Strict(first) THEN ShuffleSteps(first, Mid(lo, hi) + 1, hi) ELSE st

shuffle(x, rng) ==
    ShuffleSteps([x |-> x, rng |-> [rng EXCEPT !.calls = @ + 1]], 1, Len(x) - 1)

GeneratorResult(puzzle, solution, technique_level, techniques_used, clue_count) ==
    [puzzle |-> puzzle, solution |-> solution, technique_level |-> technique_level,
     techniques_used |-> techniques_used, clue_count |-> clue_count]

\* SudokuGenerator.__init__: 2x3 boxes for size 6, 3x3 boxes for any other size.
SudokuGenerator(size) ==
    [size |-> size,
     box_rows |-> IF size = 6 THEN 2 ELSE 3,
     box_cols |-> 3]

\* _is_valid_placement without its box scan.
_is_valid_placement_no_box(grid, row, col, val) ==
    /\ \A c \in Range(grid.size) : grid.grid[row][c] # val
    /\ \A r \in Range(grid.size) : grid.grid[r][col] # val

\* _is_valid_placement: val is in neither the row, the column nor the box.
_is_valid_placement(grid, row, col, val) ==
    /\ \A c \in Range(grid.size) : grid.grid[row][c] # val
    /\ \A r \in Range(grid.size) : grid.grid[r][col] # val
    /\ \A p \in get_box_cells(grid, row, col) : grid.grid[p[1]][p[2]] # val

\* The backtrack step of _fill_grid: the cell is blanked and only its own
\* candidate set is reset.
FillReset(grid, row, col) ==
    [grid EXCEPT !.grid[row][col] = 0, !.candidates[row][col] = 1 .. grid.size]

\* The removal of _create_puzzle: the cell is blanked and its own candidate
\* set is reset, before the candidates are recalculated.
RemoveValue(grid, row, col) ==
    [grid EXCEPT !.grid[row][col] = 0, !.candidates[row][col] = 1 .. grid.size]

\* _recalculate_candidates: a new grid of the generator's size with every
\* filled cell of the old one set again, in row-major order.
_recalculate_candidates(size, grid) ==
    ReplayFilled([create_grid(size) EXCEPT !.grid = grid.grid], 1, size * size)

\* The default clue ranges of generate_puzzle, by size and target level.
DefaultClues(size, target_level) ==
    IF size = 6
    THEN CASE target_level = 1 -> <<18, 22>>
           [] target_level = 2 -> <<14, 18>>
           [] target_level = 3 -> <<12, 16>>
           [] target_level = 4 -> <<10, 14>>
           [] target_level = 5 -> <<8, 12>>
           [] OTHER -> <<30, 40>>
    ELSE CASE target_level = 1 -> <<40, 50>>
           [] target_level = 2 -> <<35, 45>>
           [] target_level = 3 -> <<30, 35>>
           [] target_level = 4 -> <<25, 30>>
           [] target_level = 5 -> <<22, 26>>
           [] OTHER -> <<30, 40>>

\* SuperimposedGenerator.generate: the default clue ranges by size and layers.
SuperimposedDefaults(size, layers) ==
    IF size = 6
    THEN IF layers = 2 THEN <<14, 18>> ELSE <<12, 16>>
    ELSE IF layers = 2 THEN <<25, 30>> ELSE <<22, 26>>

\* "clue_positions = [(r, c) for r ... for c ... if get_value(r, c) != 0]"
CluePositions(g) == SelectSeq(AllCells(g.size), LAMBDA p : get_value(g, p[1], p[2]) # 0)

\* _generate_with_positions: "for r, c in clue_positions:
\* puzzle.set_value(r, c, solution.get_value(r, c))", positions lo..hi.
RECURSIVE SetPositions(_, _, _, _, _)
SetPositions(g, sol, positions, lo, hi) ==
    IF lo > hi THEN g
    ELSE IF lo = hi
         THEN set_value(g, positions[lo][1], positions[lo][2],
                        get_value(sol, positions[lo][1], positions[lo][2]))
         ELSE LET first == SetPositions(g, sol, positions, lo, Mid(lo, hi))
              IN IF Strict(first)
                 THEN SetPositions(first, sol, positions, Mid(lo, hi) + 1, hi)
                 ELSE g

\* ------------------------------------------------------------------------
\* validator.py
\* ------------------------------------------------------------------------

\* A grid object may hold a list of rows of any number and lengths; a list is
\* a function on 0 .. len - 1, and an index outside it raises IndexError.
ListLen(l) == Cardinality(DOMAIN l)

HasCell(g, r, c) == r \in DOMAIN g.grid /\ c \in DOMAIN g.grid[r]

\* What one check of a scan comes to: nothing found, a message, or IndexError.
Passed == [passed |-> TRUE]

Message(m) == [message |-> m]

\* The outcome of a scan that stops at its first finding.
FirstFinding(outcomes) ==
    LET found == SelectSeq(outcomes, LAMBDA o : o # Passed)
    IN IF found = <<>> THEN Passed ELSE found[1]

\* The (valid, msg) pair a validator returns.
Verdict(valid, msg) == [valid |-> valid, msg |-> msg]

validate_grid_structure(grid) ==
    IF ~(grid.size \in {6, 9})
    THEN Verdict(FALSE, <<"Invalid grid size", grid.size>>)
    ELSE IF ListLen(grid.grid) # grid.size
         THEN Verdict(FALSE, <<"Grid has rows, expected", ListLen(grid.grid), grid.size>>)
         ELSE LET f == FirstFinding([k \in 1 .. ListLen(grid.grid) |->
                           IF ListLen(grid.grid[k - 1]) # grid.size
                           THEN Message(<<"Row has cells, expected", k - 1,
                                          ListLen(grid.grid[k - 1]), grid.size>>)
                           ELSE Passed])
              IN IF f = Passed THEN Verdict(TRUE, <<"Valid structure">>)
                 ELSE Verdict(FALSE, f.message)

\* len(row) != len(set(row)) for the positive values at the given cells.
HasDuplicate(grid, cells) ==
    \E p \in cells, q \in cells :
        p # q /\ grid.grid[p[1]][p[2]] > 0 /\ grid.grid[p[1]][p[2]] = grid.grid[q[1]][q[2]]

\* get_row(r) and the duplicate test on it.
RowFinding(grid, r) ==
    IF ~(r \in DOMAIN grid.grid) THEN IndexError
    ELSE IF HasDuplicate(grid, {<<r, c>> : c \in DOMAIN grid.grid[r]})
         THEN Message(<<"Duplicate in row", r + 1>>)
         ELSE Passed

\* get_col(c) and the duplicate test on it.
ColFinding(grid, c) ==
    IF \E r \in Range(grid.size) : ~HasCell(grid, r, c) THEN IndexError
    ELSE IF HasDuplicate(grid, {<<r, c>> : r \in Range(grid.size)})
         THEN Message(<<"Duplicate in column", c + 1>>)
         ELSE Passed

\* get_box(box_r, box_c) and the duplicate test on it.
BoxFinding(grid, box_r, box_c) ==
    LET cells == {<<r, c>> : r \in box_r .. (box_r + grid.box_rows - 1),
                             c \in box_c .. (box_c + grid.box_cols - 1)}
    IN IF \E p \in cells : ~HasCell(grid, p[1], p[2]) THEN IndexError
       ELSE IF HasDuplicate(grid, cells)
            THEN Message(<<"Duplicate in box at", box_r + 1, box_c + 1>>)
            ELSE Passed

\* len(range(0, size, step))
RangeLen(size, step) == (size + step - 1) \div step

\* validate_no_duplicates: the rows, then the columns, then the boxes.
validate_no_duplicates(grid) ==
    LET across == RangeLen(grid.size, grid.box_cols)
        f == FirstFinding(
                [k \in 1 .. grid.size |-> RowFinding(grid, k - 1)]
                \o [k \in 1 .. grid.size |-> ColFinding(grid, k - 1)]
                \o [k \in 1 .. (RangeLen(grid.size, grid.box_rows) * across) |->
                        BoxFinding(grid, ((k - 1) \div across) * grid.box_rows,
                                         ((k - 1) % across) * grid.box_cols)])
    IN IF f = IndexError THEN IndexError
       ELSE IF f = Passed THEN Verdict(TRUE, <<"No duplicates">>)
       ELSE Verdict(FALSE, f.message)

validate_values_in_range(grid) ==
    LET f == FirstFinding([k \in 1 .. (grid.size * grid.size) |->
                 LET r == (k - 1) \div grid.size
                     c == (k - 1) % grid.size
                 IN IF ~HasCell(grid, r, c) THEN IndexError
                    ELSE IF grid.grid[r][c] < 0 \/ grid.grid[r][c] > grid.size
                         THEN Message(<<"Invalid value at", grid.grid[r][c], r + 1, c + 1>>)
                         ELSE Passed])
    IN IF f = IndexError THEN IndexError
       ELSE IF f = Passed THEN Verdict(TRUE, <<"All values in range">>)
       ELSE Verdict(FALSE, f.message)

\* errors after "if not valid: errors.append(msg)".
Appended(errors, v) == IF v.valid THEN errors ELSE Append(errors, v.msg)

\* ------------------------------------------------------------------------
\* sudoku_generator.py: Sudoku6x6Generator, on lists of rows without
\* candidate sets
\* ------------------------------------------------------------------------

\* [[0 for _ in range(6)] for _ in range(6)]
Blank6 == [r \in Range(6) |-> [c \in Range(6) |-> 0]]

\* Sudoku6x6Generator.is_valid: num is in neither the row, the column nor the
\* 2x3 box of (row, col).
Sudoku6x6_is_valid(grid, row, col, num) ==
    /\ \A c \in Range(6) : grid[row][c] # num
    /\ \A r \in Range(6) : grid[r][col] # num
    /\ \A r \in ((row \div 2) * 2) .. ((row \div 2) * 2 + 1) :
          \A c \in ((col \div 3) * 3) .. ((col \div 3) * 3 + 2) : grid[r][c] # num

\* The cells with a 0, in the order of "for row ... for col ...".
ZeroCells(grid) == SelectSeq(AllCells(6), LAMBDA p : grid[p[1]][p[2]] = 0)

\* sum(row.count(0) for row in puzzle)
CountZeros(puzzle) == Len(ZeroCells(puzzle))

\* ''.join(str(cell) for row in puzzle for cell in row), a list of characters.
RECURSIVE JoinRows(_, _, _)
JoinRows(rows, lo, hi) ==
    IF lo > hi THEN <<>>
    ELSE IF lo = hi THEN str(rows[(lo - 1) \div 6][(lo - 1) % 6])
         ELSE JoinRows(rows, lo, Mid(lo, hi)) \o JoinRows(rows, Mid(lo, hi) + 1, hi)

\* sum(1 for char in puzzle_str if char != '0')
CountNonZeroChars(s) == Len(SelectSeq(s, LAMBDA ch : ch # "0"))

\* ------------------------------------------------------------------------
\* SudokuGrid objects: grid and candidates are references to list objects
\* ------------------------------------------------------------------------

\* A heap is [objs, store]: objs[id] is a SudokuGrid object whose fields grid
\* and candidates are references into store, the list objects (a list of
\* lists of ints, or of sets) with everything they hold.

\* "new_grid.grid = self.grid": the new object refers to the list of the old.
deepcopy_shared(store, ref) == [store |-> store, ref |-> ref]

\* deepcopy(x): a new list object that holds copies of everything x holds.
deepcopy(store, ref) == [store |-> Append(store, store[ref]), ref |-> Len(store) + 1]

\* The grid an object stands for.
Deref(heap, id) ==
    [size |-> heap.objs[id].size,
     box_rows |-> heap.objs[id].box_rows,
     box_cols |-> heap.objs[id].box_cols,
     grid |-> heap.store[heap.objs[id].grid],
     candidates |-> heap.store[heap.objs[id].candidates]]

\* SudokuGrid.copy(): a new object with deep copies of grid and candidates.
copy_object(heap, id) ==
    LET o == heap.objs[id]
        g == deepcopy(heap.store, o.grid)
        c == deepcopy(g.store, o.candidates)
    IN [objs |-> Append(heap.objs, [o EXCEPT !.grid = g.ref, !.candidates = c.ref]),
        store |-> c.store]

\* A SudokuGrid object of its own for the grid g, on an empty heap.
HeapOf(g) ==
    [objs |-> <<[size |-> g.size, box_rows |-> g.box_rows, box_cols |-> g.box_cols,
                 grid |-> 1, candidates |-> 2]>>,
     store |-> <<g.grid, g.candidates>>]

\* The writes "self.grid[r][c] = ...", "self.candidates[r][c] = set()" and
\* "....discard(value)" change the list objects of the object in place: g is
\* the grid the object stands for afterwards.
WriteInPlace(heap, id, g) ==
    [heap EXCEPT !.store = [@ EXCEPT ![heap.objs[id].grid] = g.grid,
                                     ![heap.objs[id].candidates] = g.candidates]]

\* recalculate_candidates binds self.candidates to a new list object; the
\* grid list is written in place.
WriteRebinding(heap, id, g) ==
    [objs |-> [heap.objs EXCEPT ![id].candidates = Len(heap.store) + 1],
     store |-> Append([heap.store EXCEPT ![heap.objs[id].grid] = g.grid], g.candidates)]

\* obj.set_value(row, col, value)
object_set_value(heap, id, row, col, value) ==
    IF value > 0
    THEN WriteInPlace(heap, id, set_value(Deref(heap, id), row, col, value))
    ELSE WriteRebinding(heap, id, set_value(Deref(heap, id), row, col, value))

\* obj.remove_candidate(row, col, value)
object_remove_candidate(heap, id, row, col, value) ==
    WriteInPlace(heap, id, remove_candidate(Deref(heap, id), row, col, value))

\* "self.grid[r][c] = value" alone, as is_valid writes it.
object_set_cell(heap, id, row, col, value) ==
    [heap EXCEPT !.store[heap.objs[id].grid][row][col] = value]

\* "val in self.get_row(r)", "val in self.get_col(c)", "val in self.get_box(r, c)"
InRow(g, r, val) == \E c \in Range(g.size) : g.grid[r][c] = val

InCol(g, c, val) == \E r \in Range(g.size) : g.grid[r][c] = val

InBox(g, r, c, val) == \E p \in get_box_cells(g, r, c) : g.grid[p[1]][p[2]] = val

\* "all(self.grid[r][c] != 0 ...)", the first half of is_complete.
AllFilled(g) == \A r \in Range(g.size) : \A c \in Range(g.size) : g.grid[r][c] # 0
\* ------------------------------------------------------------------------
\* The state. Four machines are modelled: the generator (generate_puzzle and
\* what it calls), the solver (solve and analyze_difficulty), the solution
\* counter (count_solutions, has_unique_solution) and the pair to_string /
\* from_string. The generator calls the solver and the counter and waits for
\* them to return; a specification of the solver, the counter or the pair
\* alone leaves the other machines idle.
\* ------------------------------------------------------------------------

\* The generator
VARIABLES
    call,        \* the call: [size, target_level, min_clues, max_clues, max_attempts]
    rng,         \* the random source
    pc,          \* where generate_puzzle stands
    attempt,     \* "for attempt in range(max_attempts)"
    min_clues,   \* the clue range after the defaults are applied
    max_clues,
    stack,       \* the active calls of _fill_grid: [row, col, candidates, i]
    fill_ok,     \* the value the innermost finished _fill_grid call returned
    solution,    \* the grid being filled, then the solved grid
    puzzle,      \* the puzzle _create_puzzle works on
    cells,       \* the shuffled list of cells
    k,           \* the position in cells of the current visit
    backup,      \* the value of the cell the current visit cleared
    visit,       \* what the latest visit did: "kept", "reverted" or "break"
    ret          \* what generate_puzzle returned

genVars == <<call, rng, pc, attempt, min_clues, max_clues, stack, fill_ok,
             solution, puzzle, cells, k, backup, visit, ret>>

\* The solver
VARIABLES
    given,       \* the input: [puzzle, solution], the puzzle cut from the solution
    solver,      \* the SudokuSolver instance: [max_level, allow_backtracking]
    spc,         \* where the solver stands
    solving,     \* the running solve: [max_level, allow_backtracking, grid, caller]
    result,      \* the SolveResult of solve; result.grid is work_grid
    changed,     \* the loop variable of solve
    work_grid,   \* work_grid of analyze_difficulty
    max_lvl,     \* "for max_lvl in range(1, 6)"
    analysis     \* the result of analyze_difficulty

solverVars == <<given, solver, spc, solving, result, changed, work_grid,
                max_lvl, analysis>>

\* The solution counter
VARIABLES
    asked,       \* the grid has_unique_solution is called on
    counted,     \* the call of count_solutions: [grid, limit, caller]
    cpc,         \* where the counter stands
    count,       \* count[0]
    frames,      \* the active calls of solve_count: [g, row, col, vals, i]
    callee,      \* the grid of the call being entered
    unique       \* what has_unique_solution returned

countVars == <<asked, counted, cpc, count, frames, callee, unique>>

\* to_string and from_string
VARIABLES
    original,    \* the grid that is written out
    tpc,         \* which of the two calls comes next
    text,        \* to_string(original)
    parsed       \* from_string(text, size, box_rows, box_cols)

textVars == <<original, tpc, text, parsed>>

\* A grid in the hands of a caller of the SudokuGrid methods
VARIABLES
    board,       \* the grid
    gop,         \* the method called last
    gn,          \* the number of calls made
    gcall,       \* the arguments of the last call
    gprev        \* the grid before the last call

gridVars == <<board, gop, gn, gcall, gprev>>

\* An entry point that takes a size
VARIABLES
    entry,       \* create_grid, from_string or SudokuGenerator
    size_arg,    \* the size passed
    text_arg,    \* the string passed to from_string
    made,        \* what the call returned or raised
    epc          \* "call" before the call, "done" after it

sizeVars == <<entry, size_arg, text_arg, made, epc>>

\* validate_puzzle
VARIABLES
    vgrid,       \* the grid object passed
    vpc,         \* the validator called next
    errors,      \* the messages collected
    verdict      \* what validate_puzzle returned or raised

validVars == <<vgrid, vpc, errors, verdict>>

\* Sudoku6x6Generator.generate_puzzle
VARIABLES
    s6pc,        \* where the call stands
    s6rng,       \* the state of random
    s6grid,      \* the grid that solve fills: the solution
    s6stack,     \* the calls of solve in progress: cell, shuffled numbers, position
    s6ok,        \* what the call of solve that returned last has returned
    s6target,    \* target_clues
    s6puzzle,    \* the puzzle of remove_numbers
    s6cells,     \* the shuffled cells
    s6k,         \* the position of the loop in the cells
    s6ret,       \* what generate_puzzle returned
    s6backup,    \* backup of remove_numbers
    s6count,     \* count[0] of count_solutions
    s6g,         \* grid_copy of count_solutions
    s6frames     \* the calls of solve_count in progress: cell and number

searchVars == <<s6backup, s6count, s6g, s6frames>>

easyVars == <<s6pc, s6rng, s6grid, s6stack, s6ok, s6target, s6puzzle, s6cells,
              s6k, s6ret, searchVars>>

\* SuperimposedGenerator.generate
VARIABLES
    scall,           \* the call: [size, layers, target_level, min_clues, max_clues, max_attempts]
    lpc,             \* where generate stands
    sattempt,        \* "for attempt in range(max_attempts)"
    smin,            \* the clue range after the defaults are applied
    smax,
    clue_positions,  \* the positions of the clues of the first puzzle
    results,         \* the results of the layers so far
    success,
    layer,           \* "for layer in range(1, self.layers)"
    pattempt,        \* "for attempt in range(max_attempts)" of _generate_with_positions
    lpuzzle,         \* the puzzle of _generate_with_positions
    layer_result,    \* what _generate_with_positions returned
    sret             \* what generate returned: None or Some(list)

layerVars == <<scall, lpc, sattempt, smin, smax, clue_positions, results, success,
               layer, pattempt, lpuzzle, layer_result, sret>>

\* JointSuperimposedGenerator._generate_single
VARIABLES
    jcall,           \* the call: [size, layers, min_clues, max_clues]
    jpc,             \* where _generate_single stands
    solved_layers,   \* the solved grids
    puzzle_layers,   \* the puzzles, one per layer
    positions,       \* the shuffled positions
    jk,              \* the place in positions of "for r, c in positions"
    current_clues,
    backups,         \* the values of the layers at the position
    jl,              \* the layer has_unique_solution is asked about
    all_unique,
    jret             \* what _generate_single returned

jointVars == <<jcall, jpc, solved_layers, puzzle_layers, positions, jk,
               current_clues, backups, jl, all_unique, jret>>

\* SudokuGrid objects in the hands of a caller and of the function it calls
VARIABLES
    heap,        \* the objects and the list objects they refer to
    hchain,      \* the objects of the call: the caller's grid, then the copies
    hfn,         \* the function the caller calls
    hpc,         \* where the call stands
    hscan,       \* is_valid under way: its object, its place, the value taken out
    hverdict,    \* what is_valid returned last
    hbefore,     \* the caller's grid when the call was made
    hceiling,    \* the ceiling of the solve under way
    hcount       \* count[0] of count_solutions

heapVars == <<heap, hchain, hfn, hpc, hscan, hverdict, hbefore, hceiling, hcount>>

auxVars == <<gridVars, sizeVars, validVars, easyVars, layerVars, jointVars, heapVars>>

coreVars == <<genVars, solverVars, countVars, textVars>>

besideGrid == <<coreVars, sizeVars, validVars, easyVars, layerVars, jointVars, heapVars>>

besideSize == <<coreVars, gridVars, validVars, easyVars, layerVars, jointVars, heapVars>>

besideValid == <<coreVars, gridVars, sizeVars, easyVars, layerVars, jointVars, heapVars>>

besideEasy == <<coreVars, gridVars, sizeVars, validVars, layerVars, jointVars, heapVars>>

\* What the steps of SuperimposedGenerator.generate never touch.
besideLayers == <<textVars, gridVars, sizeVars, validVars, easyVars, jointVars, heapVars>>

\* What the steps of JointSuperimposedGenerator._generate_single never touch.
besideJoint == <<solverVars, textVars, gridVars, sizeVars, validVars, easyVars, layerVars, heapVars>>

besideHeap == <<coreVars, gridVars, sizeVars, validVars, easyVars, layerVars, jointVars>>

vars == <<genVars, solverVars, countVars, textVars, auxVars>>

\* ------------------------------------------------------------------------
\* The generator as a state machine: generate_puzzle and what it calls
\* ------------------------------------------------------------------------

\* "solver = SudokuSolver(max_level=5, allow_backtracking=False)" and
\* "solver.analyze_difficulty(puzzle)": the solver is started on g.
CallClassifier(g) ==
    /\ given' = [puzzle |-> g, solution |-> solution]
    /\ solver' = [max_level |-> 5, allow_backtracking |-> FALSE]
    /\ spc' = "analyze"
    /\ UNCHANGED <<solving, result, changed, work_grid, max_lvl, analysis>>

\* generate_puzzle: the defaults for a clue range that is not fully given.
GenerateStart ==
    /\ pc = "start"
    /\ LET defaults == DefaultClues(call.size, call.target_level)
       IN IF call.min_clues = None \/ call.max_clues = None
          THEN min_clues' = defaults[1] /\ max_clues' = defaults[2]
          ELSE min_clues' = call.min_clues.some /\ max_clues' = call.max_clues.some
    /\ attempt' = 0
    /\ pc' = "attempt"
    /\ UNCHANGED <<call, rng, stack, fill_ok, solution, puzzle, cells, k, backup,
                   visit, ret>>
    /\ UNCHANGED <<solverVars, countVars, textVars, auxVars>>

\* The head of the attempt loop with one attempt more than max_attempts.
AttemptLoopOneMore ==
    /\ pc = "attempt"
    /\ IF attempt <= call.max_attempts
       THEN /\ solution' = create_grid(SudokuGenerator(call.size).size)
            /\ stack' = <<>>
            /\ pc' = "fill_call"
            /\ ret' = ret
       ELSE /\ ret' = None
            /\ pc' = "done"
            /\ UNCHANGED <<solution, stack>>
    /\ UNCHANGED <<call, rng, attempt, min_clues, max_clues, fill_ok, puzzle,
                   cells, k, backup, visit>>
    /\ UNCHANGED <<solverVars, countVars, textVars, auxVars>>

\* The head of the attempt loop: the next attempt starts with
\* generate_solved_grid (a new blank grid), or the attempts are used up and
\* None is returned.
AttemptLoop ==
    /\ pc = "attempt"
    /\ IF attempt < call.max_attempts
       THEN /\ solution' = create_grid(SudokuGenerator(call.size).size)
            /\ stack' = <<>>
            /\ pc' = "fill_call"
            /\ ret' = ret
       ELSE /\ ret' = None
            /\ pc' = "done"
            /\ UNCHANGED <<solution, stack>>
    /\ UNCHANGED <<call, rng, attempt, min_clues, max_clues, fill_ok, puzzle,
                   cells, k, backup, visit>>
    /\ UNCHANGED <<solverVars, countVars, textVars, auxVars>>

\* _fill_grid is entered: no empty cell returns True; otherwise the first
\* empty cell is taken and the values 1..size are shuffled.
FillCall ==
    /\ pc = "fill_call"
    /\ LET empty == get_empty_cells(solution)
       IN IF empty = <<>>
          THEN /\ fill_ok' = TRUE
               /\ pc' = "fill_ret"
               /\ UNCHANGED <<stack, rng>>
          ELSE LET sh == shuffle([i \in 1 .. call.size |-> i], rng)
               IN /\ stack' = Append(stack, [row |-> empty[1][1], col |-> empty[1][2],
                                             candidates |-> sh.x, i |-> 1])
                  /\ rng' = sh.rng
                  /\ pc' = "fill_loop"
                  /\ fill_ok' = fill_ok
    /\ UNCHANGED <<call, attempt, min_clues, max_clues, solution, puzzle, cells,
                   k, backup, visit, ret>>
    /\ UNCHANGED <<solverVars, countVars, textVars, auxVars>>

\* One iteration of "for val in candidates" in the innermost _fill_grid call:
\* a valid value is set and _fill_grid is called again; an invalid one is
\* skipped; after the last value the call returns False.
FillLoop ==
    /\ pc = "fill_loop"
    /\ LET f == stack[Len(stack)]
       IN IF f.i > Len(f.candidates)
          THEN /\ stack' = SubSeq(stack, 1, Len(stack) - 1)
               /\ fill_ok' = FALSE
               /\ pc' = "fill_ret"
               /\ solution' = solution
          ELSE IF _is_valid_placement(solution, f.row, f.col, f.candidates[f.i])
               THEN /\ solution' = set_value(solution, f.row, f.col, f.candidates[f.i])
                    /\ pc' = "fill_call"
                    /\ UNCHANGED <<stack, fill_ok>>
               ELSE /\ stack' = [stack EXCEPT ![Len(stack)].i = @ + 1]
                    /\ UNCHANGED <<solution, fill_ok, pc>>
    /\ UNCHANGED <<call, rng, attempt, min_clues, max_clues, puzzle, cells, k,
                   backup, visit, ret>>
    /\ UNCHANGED <<solverVars, countVars, textVars, auxVars>>

\* A _fill_grid call has returned to its caller. The outermost caller is
\* generate_solved_grid, which returns the grid whatever the value, to
\* generate_puzzle (which goes on to _create_puzzle), to
\* _generate_with_positions or to _generate_single; an inner caller passes True on, and on False
\* blanks its cell and tries its next value.
FillReturn ==
    /\ pc = "fill_ret"
    /\ IF stack = <<>>
       THEN /\ pc' = IF lpc = "pos_fill" \/ jpc = "fill" THEN "filled" ELSE "create"
            /\ UNCHANGED <<stack, solution>>
       ELSE LET f == stack[Len(stack)]
            IN IF fill_ok
               THEN /\ stack' = SubSeq(stack, 1, Len(stack) - 1)
                    /\ UNCHANGED <<solution, pc>>
               ELSE /\ solution' = FillReset(solution, f.row, f.col)
                    /\ stack' = [stack EXCEPT ![Len(stack)].i = @ + 1]
                    /\ pc' = "fill_loop"
    /\ UNCHANGED <<call, rng, attempt, min_clues, max_clues, fill_ok, puzzle,
                   cells, k, backup, visit, ret>>
    /\ UNCHANGED <<solverVars, countVars, textVars, auxVars>>

\* _create_puzzle is entered: the puzzle is a copy of the solution and the
\* cells are shuffled.
CreatePuzzle ==
    /\ pc = "create"
    /\ LET sh == shuffle(AllCells(call.size), rng)
       IN /\ cells' = sh.x
          /\ rng' = sh.rng
    /\ puzzle' = copy(solution)
    /\ k' = 1
    /\ visit' = "none"
    /\ pc' = "scan"
    /\ UNCHANGED <<call, attempt, min_clues, max_clues, stack, fill_ok, solution,
                   backup, ret>>
    /\ UNCHANGED <<solverVars, countVars, textVars, auxVars>>

\* ScanHead without "if current_clues <= 17: break".
ScanHeadWithoutFloor ==
    /\ pc = "scan"
    /\ IF k > Len(cells)
       THEN /\ pc' = "classify"
            /\ visit' = visit
            /\ UNCHANGED solverVars
       ELSE IF count_clues(puzzle) <= min_clues
            THEN /\ pc' = "scan_level"
                 /\ visit' = visit
                 /\ CallClassifier(puzzle)
            ELSE /\ pc' = "remove"
                 /\ visit' = visit
                 /\ UNCHANGED solverVars
    /\ UNCHANGED <<call, rng, attempt, min_clues, max_clues, stack, fill_ok,
                   solution, puzzle, cells, k, backup, ret>>
    /\ UNCHANGED <<countVars, textVars, auxVars>>

\* The head of "for row, col in cells": the loop is over; or it breaks at 17
\* clues; or, at min_clues or fewer, the puzzle is classified first; or the
\* cell is removed.
ScanHead ==
    /\ pc = "scan"
    /\ IF k > Len(cells)
       THEN /\ pc' = "classify"
            /\ visit' = visit
            /\ UNCHANGED solverVars
       ELSE IF count_clues(puzzle) <= 17
            THEN /\ pc' = "classify"
                 /\ visit' = "break"
                 /\ UNCHANGED solverVars
            ELSE IF count_clues(puzzle) <= min_clues
                 THEN /\ pc' = "scan_level"
                      /\ visit' = visit
                      /\ CallClassifier(puzzle)
                 ELSE /\ pc' = "remove"
                      /\ visit' = visit
                      /\ UNCHANGED solverVars
    /\ UNCHANGED <<call, rng, attempt, min_clues, max_clues, stack, fill_ok,
                   solution, puzzle, cells, k, backup, ret>>
    /\ UNCHANGED <<countVars, textVars, auxVars>>

\* ScanLevel without "if result.max_technique_level >= target_level": the
\* scan breaks at min_clues whatever the level is.
ScanLevelUntested ==
    /\ pc = "scan_level"
    /\ spc = "analyzed"
    /\ pc' = "classify" /\ visit' = "break"
    /\ UNCHANGED <<call, rng, attempt, min_clues, max_clues, stack, fill_ok,
                   solution, puzzle, cells, k, backup, ret>>
    /\ UNCHANGED <<solverVars, countVars, textVars, auxVars>>

\* "if result.max_technique_level >= target_level: break"
ScanLevel ==
    /\ pc = "scan_level"
    /\ spc = "analyzed"
    /\ IF analysis.max_technique_level >= call.target_level
       THEN pc' = "classify" /\ visit' = "break"
       ELSE pc' = "remove" /\ visit' = visit
    /\ UNCHANGED <<call, rng, attempt, min_clues, max_clues, stack, fill_ok,
                   solution, puzzle, cells, k, backup, ret>>
    /\ UNCHANGED <<solverVars, countVars, textVars, auxVars>>

\* RemoveCell without "backup = puzzle.get_value(row, col)": backup keeps the
\* value of the visit before.
RemoveCellStaleBackup ==
    /\ pc = "remove"
    /\ LET row == cells[k][1]
           col == cells[k][2]
           cleared == _recalculate_candidates(
                          SudokuGenerator(call.size).size,
                          RemoveValue(puzzle, row, col))
       IN /\ backup' = backup
          /\ puzzle' = cleared
          /\ asked' = cleared
    /\ cpc' = "unique"
    /\ pc' = "unique"
    /\ UNCHANGED <<call, rng, attempt, min_clues, max_clues, stack, fill_ok,
                   solution, cells, k, visit, ret>>
    /\ UNCHANGED <<counted, count, frames, callee, unique>>
    /\ UNCHANGED <<solverVars, textVars, auxVars>>

\* The cell is cleared, the candidates are recalculated and
\* has_unique_solution is called on the puzzle.
RemoveCell ==
    /\ pc = "remove"
    /\ LET row == cells[k][1]
           col == cells[k][2]
           cleared == _recalculate_candidates(
                          SudokuGenerator(call.size).size,
                          RemoveValue(puzzle, row, col))
       IN /\ backup' = get_value(puzzle, row, col)
          /\ puzzle' = cleared
          /\ asked' = cleared
    /\ cpc' = "unique"
    /\ pc' = "unique"
    /\ UNCHANGED <<call, rng, attempt, min_clues, max_clues, stack, fill_ok,
                   solution, cells, k, visit, ret>>
    /\ UNCHANGED <<counted, count, frames, callee, unique>>
    /\ UNCHANGED <<solverVars, textVars, auxVars>>

\* CheckUnique without "puzzle.set_value(row, col, backup)": the visit of a
\* cell whose removal leaves a second solution ends with the cell blank.
CheckUniqueNoRestore ==
    /\ pc = "unique"
    /\ cpc = "done"
    /\ IF ~unique.some
       THEN /\ visit' = "reverted"
            /\ k' = k + 1
            /\ pc' = "scan"
            /\ UNCHANGED solverVars
       ELSE /\ CallClassifier(puzzle)
            /\ pc' = "difficulty"
            /\ UNCHANGED <<visit, k>>
    /\ UNCHANGED <<call, rng, attempt, min_clues, max_clues, stack, fill_ok,
                   solution, puzzle, cells, backup, ret>>
    /\ UNCHANGED <<countVars, textVars, auxVars>>

\* "if not has_unique_solution(puzzle)": the value is restored and the visit
\* is over; otherwise the puzzle is classified.
CheckUnique ==
    /\ pc = "unique"
    /\ cpc = "done"
    /\ IF ~unique.some
       THEN /\ puzzle' = set_value(puzzle, cells[k][1], cells[k][2], backup)
            /\ visit' = "reverted"
            /\ k' = k + 1
            /\ pc' = "scan"
            /\ UNCHANGED solverVars
       ELSE /\ CallClassifier(puzzle)
            /\ pc' = "difficulty"
            /\ UNCHANGED <<puzzle, visit, k>>
    /\ UNCHANGED <<call, rng, attempt, min_clues, max_clues, stack, fill_ok,
                   solution, cells, backup, ret>>
    /\ UNCHANGED <<countVars, textVars, auxVars>>

\* CheckDifficulty without "elif result.max_technique_level > target_level +
\* 1": a removal the classifier solves is kept at any level.
CheckDifficultyAnyLevel ==
    /\ pc = "difficulty"
    /\ spc = "analyzed"
    /\ IF ~analysis.solved
       THEN /\ puzzle' = set_value(puzzle, cells[k][1], cells[k][2], backup)
            /\ visit' = "reverted"
       ELSE /\ puzzle' = puzzle
            /\ visit' = "kept"
    /\ k' = k + 1
    /\ pc' = "scan"
    /\ UNCHANGED <<call, rng, attempt, min_clues, max_clues, stack, fill_ok,
                   solution, cells, backup, ret>>
    /\ UNCHANGED <<solverVars, countVars, textVars, auxVars>>

\* "if not result.solved ... elif result.max_technique_level >
\* target_level + 1": the value is restored; otherwise the removal is kept.
CheckDifficulty ==
    /\ pc = "difficulty"
    /\ spc = "analyzed"
    /\ IF ~analysis.solved \/ analysis.max_technique_level > call.target_level + 1
       THEN /\ puzzle' = set_value(puzzle, cells[k][1], cells[k][2], backup)
            /\ visit' = "reverted"
       ELSE /\ puzzle' = puzzle
            /\ visit' = "kept"
    /\ k' = k + 1
    /\ pc' = "scan"
    /\ UNCHANGED <<call, rng, attempt, min_clues, max_clues, stack, fill_ok,
                   solution, cells, backup, ret>>
    /\ UNCHANGED <<solverVars, countVars, textVars, auxVars>>

\* _create_puzzle has returned the puzzle: generate_puzzle classifies it.
Classify ==
    /\ pc = "classify"
    /\ CallClassifier(puzzle)
    /\ pc' = "accept"
    /\ UNCHANGED <<call, rng, attempt, min_clues, max_clues, stack, fill_ok,
                   solution, puzzle, cells, k, backup, visit, ret>>
    /\ UNCHANGED <<countVars, textVars, auxVars>>

\* FinishAttempt without "if min_clues <= clue_count <= max_clues".
FinishAttemptAnyClues ==
    /\ pc = "accept"
    /\ spc = "analyzed"
    /\ IF /\ analysis.solved
          /\ call.target_level <= analysis.max_technique_level
          /\ analysis.max_technique_level <= call.target_level + 1
       THEN /\ ret' = GeneratorResult(puzzle, solution,
                                      analysis.max_technique_level,
                                      analysis.techniques_used, count_clues(puzzle))
            /\ pc' = "done"
            /\ attempt' = attempt
       ELSE /\ attempt' = attempt + 1
            /\ pc' = "attempt"
            /\ ret' = ret
    /\ UNCHANGED <<call, rng, min_clues, max_clues, stack, fill_ok, solution,
                   puzzle, cells, k, backup, visit>>
    /\ UNCHANGED <<solverVars, countVars, textVars, auxVars>>

\* The end of an attempt: the puzzle is returned when the classifier solved it
\* at target_level or target_level + 1 with a clue count in the range;
\* otherwise the next attempt follows.
FinishAttempt ==
    /\ pc = "accept"
    /\ spc = "analyzed"
    /\ LET clue_count == count_clues(puzzle)
       IN IF /\ analysis.solved
             /\ call.target_level <= analysis.max_technique_level
             /\ analysis.max_technique_level <= call.target_level + 1
             /\ min_clues <= clue_count
             /\ clue_count <= max_clues
          THEN /\ ret' = GeneratorResult(puzzle, solution,
                                         analysis.max_technique_level,
                                         analysis.techniques_used, clue_count)
               /\ pc' = "done"
               /\ attempt' = attempt
          ELSE /\ attempt' = attempt + 1
               /\ pc' = "attempt"
               /\ ret' = ret
    /\ UNCHANGED <<call, rng, min_clues, max_clues, stack, fill_ok, solution,
                   puzzle, cells, k, backup, visit>>
    /\ UNCHANGED <<solverVars, countVars, textVars, auxVars>>

\* ------------------------------------------------------------------------
\* The solver as a state machine: analyze_difficulty ceiling by ceiling and
\* SudokuSolver.solve pass by pass
\* ------------------------------------------------------------------------

\* analyze_difficulty is entered: the work grid is a copy of the input and
\* the result is empty.
AnalyzeStart ==
    /\ spc = "analyze"
    /\ work_grid' = copy(given.puzzle)
    /\ analysis' = SolveResult(FALSE, None)
    /\ max_lvl' = 1
    /\ spc' = "ceiling"
    /\ UNCHANGED <<given, solver, solving, result, changed>>
    /\ UNCHANGED <<genVars, countVars, textVars, auxVars>>

\* The head of "for max_lvl in range(1, 6)": a new solver with the ceiling
\* max_lvl solves the work grid; after the last ceiling backtracking is the
\* fallback and analyze_difficulty returns.
AnalyzeCeiling ==
    /\ spc = "ceiling"
    /\ IF max_lvl <= 5
       THEN /\ solving' = [max_level |-> max_lvl, allow_backtracking |-> FALSE,
                           grid |-> work_grid, caller |-> "analyze_difficulty"]
            /\ spc' = "solve"
            /\ analysis' = analysis
       ELSE /\ analysis' = AnalyzeFallback(analysis, work_grid,
                                           solver.allow_backtracking)
            /\ spc' = "analyzed"
            /\ solving' = solving
    /\ UNCHANGED <<given, solver, result, changed, work_grid, max_lvl>>
    /\ UNCHANGED <<genVars, countVars, textVars, auxVars>>

\* solve is entered: the work grid is a copy of the input.
SolveStart ==
    /\ spc = "solve"
    /\ result' = SolveResult(FALSE, copy(solving.grid))
    /\ changed' = TRUE
    /\ spc' = "loop"
    /\ UNCHANGED <<given, solver, solving, work_grid, max_lvl, analysis>>
    /\ UNCHANGED <<genVars, countVars, textVars, auxVars>>

\* One test of "while changed and not work_grid.is_complete()" and, when it
\* holds, one pass over the registry.
SolvePass ==
    /\ spc = "loop"
    /\ IF changed /\ ~is_complete(result.grid)
       THEN LET pass == TechniquePass([res |-> result, changed |-> FALSE],
                                      solving.max_level, 1, Len(TECHNIQUES))
            IN /\ result' = pass.res
               /\ changed' = pass.changed
               /\ spc' = spc
       ELSE /\ spc' = "finish"
            /\ UNCHANGED <<result, changed>>
    /\ UNCHANGED <<given, solver, solving, work_grid, max_lvl, analysis>>
    /\ UNCHANGED <<genVars, countVars, textVars, auxVars>>

\* After the loop: a complete grid is solved; otherwise backtracking is tried
\* when it is allowed. solve returns to its caller.
SolveFinish ==
    /\ spc = "finish"
    /\ result' = SolveEnd(result, solving.allow_backtracking)
    /\ spc' = IF solving.caller = "analyze_difficulty" THEN "attempt" ELSE "done"
    /\ UNCHANGED <<given, solver, solving, changed, work_grid, max_lvl, analysis>>
    /\ UNCHANGED <<genVars, countVars, textVars, auxVars>>

\* analyze_difficulty after the attempt at ceiling max_lvl: a solved attempt
\* is returned; otherwise it is merged and the next ceiling works on its grid.
AnalyzeAttempt ==
    /\ spc = "attempt"
    /\ IF result.solved
       THEN /\ analysis' = AnalyzeSolved(analysis, result)
            /\ spc' = "analyzed"
            /\ UNCHANGED <<work_grid, max_lvl>>
       ELSE /\ analysis' = AnalyzeMerge(analysis, result)
            /\ work_grid' = IF result.grid # None THEN result.grid ELSE work_grid
            /\ max_lvl' = max_lvl + 1
            /\ spc' = "ceiling"
    /\ UNCHANGED <<given, solver, solving, result, changed>>
    /\ UNCHANGED <<genVars, countVars, textVars, auxVars>>

\* ------------------------------------------------------------------------
\* The counter as a state machine: has_unique_solution, count_solutions and
\* the calls of solve_count one by one
\* ------------------------------------------------------------------------

\* has_unique_solution(grid) is entered: count_solutions(grid, limit=2).
HasUnique ==
    /\ cpc = "unique"
    /\ counted' = [grid |-> asked, limit |-> 2, caller |-> "has_unique_solution"]
    /\ cpc' = "count"
    /\ UNCHANGED <<asked, count, frames, callee, unique>>
    /\ UNCHANGED <<genVars, solverVars, textVars, auxVars>>

\* count_solutions is entered: count = [0], solve_count(grid.copy()).
CountStart ==
    /\ cpc = "count"
    /\ count' = 0
    /\ frames' = <<>>
    /\ callee' = copy(counted.grid)
    /\ cpc' = "call"
    /\ UNCHANGED <<asked, counted, unique>>
    /\ UNCHANGED <<genVars, solverVars, textVars, auxVars>>

\* solve_count(g) is entered: it returns at once when the limit is reached,
\* counts a complete valid grid, or takes the empty cell with the fewest
\* candidates and lists its candidates.
CountEnter ==
    /\ cpc = "call"
    /\ IF LimitReached(count, counted.limit)
       THEN /\ cpc' = "return"
            /\ UNCHANGED <<count, frames>>
       ELSE IF get_empty_cells(callee) = <<>>
            THEN /\ count' = IF is_valid(callee) THEN count + 1 ELSE count
                 /\ cpc' = "return"
                 /\ frames' = frames
            ELSE LET cell == FewestCandidatesCell(callee)
                 IN /\ frames' = Append(frames,
                                   [g |-> callee, row |-> cell[1], col |-> cell[2],
                                    vals |-> SortedSeq(Cand(callee, cell)), i |-> 1])
                    /\ cpc' = "loop"
                    /\ count' = count
    /\ UNCHANGED <<asked, counted, callee, unique>>
    /\ UNCHANGED <<genVars, solverVars, textVars, auxVars>>

\* CountLoop leaving the loop after the first value whose grid is valid.
CountLoopFirstBranch ==
    /\ cpc = "loop"
    /\ LET f == frames[Len(frames)]
       IN IF f.i > Len(f.vals)
          THEN /\ frames' = SubSeq(frames, 1, Len(frames) - 1)
               /\ cpc' = "return"
               /\ callee' = callee
          ELSE LET new_grid == set_value(copy(f.g), f.row, f.col, f.vals[f.i])
               IN IF is_valid(new_grid)
                  THEN /\ frames' = [frames EXCEPT ![Len(frames)].i = Len(f.vals) + 1]
                       /\ callee' = new_grid
                       /\ cpc' = "call"
                  ELSE /\ frames' = [frames EXCEPT ![Len(frames)].i = @ + 1]
                       /\ callee' = callee
                       /\ cpc' = cpc
    /\ UNCHANGED <<asked, counted, count, unique>>
    /\ UNCHANGED <<genVars, solverVars, textVars, auxVars>>

\* One iteration of "for val in list(g.get_candidates(row, col))" in the
\* innermost call: the value is set on a copy, and solve_count is called on
\* the copy when it is valid. After the last value the call returns.
CountLoop ==
    /\ cpc = "loop"
    /\ LET f == frames[Len(frames)]
       IN IF f.i > Len(f.vals)
          THEN /\ frames' = SubSeq(frames, 1, Len(frames) - 1)
               /\ cpc' = "return"
               /\ callee' = callee
          ELSE LET new_grid == set_value(copy(f.g), f.row, f.col, f.vals[f.i])
               IN /\ frames' = [frames EXCEPT ![Len(frames)].i = @ + 1]
                  /\ IF is_valid(new_grid)
                     THEN callee' = new_grid /\ cpc' = "call"
                     ELSE callee' = callee /\ cpc' = cpc
    /\ UNCHANGED <<asked, counted, count, unique>>
    /\ UNCHANGED <<genVars, solverVars, textVars, auxVars>>

\* A solve_count call has returned: to the loop of its caller, or to
\* count_solutions, which returns count[0]; has_unique_solution then returns
\* "count == 1".
CountReturn ==
    /\ cpc = "return"
    /\ IF frames # <<>>
       THEN cpc' = "loop" /\ unique' = unique
       ELSE /\ cpc' = "done"
            /\ unique' = IF counted.caller = "has_unique_solution"
                         THEN Some(count = 1) ELSE unique
    /\ UNCHANGED <<asked, counted, count, frames, callee>>
    /\ UNCHANGED <<genVars, solverVars, textVars, auxVars>>

\* ------------------------------------------------------------------------
\* to_string and from_string applied to a grid
\* ------------------------------------------------------------------------

CallToString ==
    /\ tpc = "to_string"
    /\ text' = to_string(original)
    /\ tpc' = "from_string"
    /\ UNCHANGED <<original, parsed>>
    /\ UNCHANGED <<genVars, solverVars, countVars, auxVars>>

CallFromString ==
    /\ tpc = "from_string"
    /\ parsed' = from_string(text, original.size, original.box_rows, original.box_cols)
    /\ tpc' = "done"
    /\ UNCHANGED <<original, text>>
    /\ UNCHANGED <<genVars, solverVars, countVars, auxVars>>


\* ------------------------------------------------------------------------
\* The SudokuGrid methods called on a grid, one call after another
\* ------------------------------------------------------------------------

\* The caller of the grid methods makes at most MaxCalls calls, on the cells
\* ApiCells and with the values 0 .. MaxApiValue.
MaxCalls == 3

MaxApiValue == 2

ApiCells == {<<0, 0>>, <<0, 1>>, <<1, 3>>, <<4, 0>>}

\* set_value(row, col, value) with a positive value or 0.
GridSetValue ==
    /\ gop # "idle" /\ gn < MaxCalls
    /\ \E p \in ApiCells, value \in 0 .. MaxApiValue :
          /\ board' = set_value(board, p[1], p[2], value)
          /\ gcall' = <<p[1], p[2], value>>
          /\ gop' = IF value = 0 THEN "set_value_0"
                    ELSE IF is_empty(board, p[1], p[2]) THEN "set_value_on_empty"
                    ELSE "set_value_on_filled"
    /\ gn' = gn + 1
    /\ gprev' = board
    /\ UNCHANGED besideGrid

\* remove_candidate(row, col, value).
GridRemoveCandidate ==
    /\ gop # "idle" /\ gn < MaxCalls
    /\ \E p \in ApiCells, value \in 1 .. MaxApiValue :
          /\ board' = remove_candidate(board, p[1], p[2], value)
          /\ gcall' = <<p[1], p[2], value>>
    /\ gop' = "remove_candidate"
    /\ gn' = gn + 1
    /\ gprev' = board
    /\ UNCHANGED besideGrid

\* copy(): the caller goes on with the copy.
GridCopy ==
    /\ gop # "idle" /\ gn < MaxCalls
    /\ board' = copy(board)
    /\ gcall' = <<>>
    /\ gop' = "copy"
    /\ gn' = gn + 1
    /\ gprev' = board
    /\ UNCHANGED besideGrid

\* from_string(to_string()): the caller goes on with the grid read back.
GridFromString ==
    /\ gop # "idle" /\ gn < MaxCalls
    /\ board' = from_string(to_string(board), board.size, board.box_rows, board.box_cols)
    /\ gcall' = <<>>
    /\ gop' = "from_string"
    /\ gn' = gn + 1
    /\ gprev' = board
    /\ UNCHANGED besideGrid

\* The removal step of _create_puzzle on the grid.
GridRemoveClue ==
    /\ gop # "idle" /\ gn < MaxCalls
    /\ \E p \in ApiCells :
          /\ ~is_empty(board, p[1], p[2])
          /\ board' = _recalculate_candidates(board.size, RemoveValue(board, p[1], p[2]))
          /\ gcall' = <<p[1], p[2]>>
    /\ gop' = "remove_clue"
    /\ gn' = gn + 1
    /\ gprev' = board
    /\ UNCHANGED besideGrid

\* ------------------------------------------------------------------------
\* The entry points that take a size
\* ------------------------------------------------------------------------

CallCreateGrid ==
    /\ epc = "call" /\ entry = "create_grid"
    /\ made' = create_grid(size_arg)
    /\ epc' = "done"
    /\ UNCHANGED <<entry, size_arg, text_arg>>
    /\ UNCHANGED besideSize

\* from_string with the box shape a caller derives from the size.
CallFromStringOfSize ==
    /\ epc = "call" /\ entry = "from_string"
    /\ made' = from_string(text_arg, size_arg, IF size_arg = 6 THEN 2 ELSE 3, 3)
    /\ epc' = "done"
    /\ UNCHANGED <<entry, size_arg, text_arg>>
    /\ UNCHANGED besideSize

CallSudokuGenerator ==
    /\ epc = "call" /\ entry = "SudokuGenerator"
    /\ made' = SudokuGenerator(size_arg)
    /\ epc' = "done"
    /\ UNCHANGED <<entry, size_arg, text_arg>>
    /\ UNCHANGED besideSize

\* ------------------------------------------------------------------------
\* validate_puzzle, validator by validator
\* ------------------------------------------------------------------------

ValidateStructure ==
    /\ vpc = "structure"
    /\ errors' = Appended(errors, validate_grid_structure(vgrid))
    /\ vpc' = "duplicates"
    /\ UNCHANGED <<vgrid, verdict>>
    /\ UNCHANGED besideValid

ValidateDuplicates ==
    /\ vpc = "duplicates"
    /\ LET v == validate_no_duplicates(vgrid)
       IN IF v = IndexError
          THEN /\ verdict' = IndexError
               /\ vpc' = "done"
               /\ errors' = errors
          ELSE /\ errors' = Appended(errors, v)
               /\ vpc' = "range"
               /\ verdict' = verdict
    /\ UNCHANGED vgrid
    /\ UNCHANGED besideValid

ValidateRange ==
    /\ vpc = "range"
    /\ LET v == validate_values_in_range(vgrid)
       IN IF v = IndexError
          THEN /\ verdict' = IndexError
               /\ vpc' = "done"
               /\ errors' = errors
          ELSE /\ errors' = Appended(errors, v)
               /\ vpc' = "return"
               /\ verdict' = verdict
    /\ UNCHANGED vgrid
    /\ UNCHANGED besideValid

ValidateReturn ==
    /\ vpc = "return"
    /\ verdict' = [ok |-> Len(errors) = 0, errors |-> errors]
    /\ vpc' = "done"
    /\ UNCHANGED <<vgrid, errors>>
    /\ UNCHANGED besideValid

\* ------------------------------------------------------------------------
\* Sudoku6x6Generator.generate_puzzle: generate_complete_grid with the calls
\* of solve one by one, then remove_numbers cell by cell
\* ------------------------------------------------------------------------

\* generate_complete_grid is entered: solve is called on a grid of zeros.
S6CompleteGrid ==
    /\ s6pc = "generate"
    /\ s6grid' = Blank6
    /\ s6stack' = <<>>
    /\ s6pc' = "solve_call"
    /\ UNCHANGED <<s6rng, s6ok, s6target, s6puzzle, s6cells, s6k, s6ret>>
    /\ UNCHANGED <<searchVars, besideEasy>>

\* solve is entered: without a 0 it returns True; otherwise the numbers
\* 1..6 are shuffled for the first cell with a 0.
S6SolveCall ==
    /\ s6pc = "solve_call"
    /\ LET zeros == ZeroCells(s6grid)
       IN IF zeros = <<>>
          THEN /\ s6ok' = TRUE
               /\ s6pc' = "solve_ret"
               /\ UNCHANGED <<s6stack, s6rng>>
          ELSE LET sh == shuffle([i \in 1 .. 6 |-> i], s6rng)
               IN /\ s6stack' = Append(s6stack, [row |-> zeros[1][1], col |-> zeros[1][2],
                                                 numbers |-> sh.x, i |-> 1])
                  /\ s6rng' = sh.rng
                  /\ s6pc' = "solve_loop"
                  /\ s6ok' = s6ok
    /\ UNCHANGED <<s6grid, s6target, s6puzzle, s6cells, s6k, s6ret>>
    /\ UNCHANGED <<searchVars, besideEasy>>

\* One iteration of "for num in numbers" in the innermost call of solve.
S6SolveLoop ==
    /\ s6pc = "solve_loop"
    /\ LET f == s6stack[Len(s6stack)]
       IN IF f.i > Len(f.numbers)
          THEN /\ s6stack' = SubSeq(s6stack, 1, Len(s6stack) - 1)
               /\ s6ok' = FALSE
               /\ s6pc' = "solve_ret"
               /\ s6grid' = s6grid
          ELSE IF Sudoku6x6_is_valid(s6grid, f.row, f.col, f.numbers[f.i])
               THEN /\ s6grid' = [s6grid EXCEPT ![f.row][f.col] = f.numbers[f.i]]
                    /\ s6pc' = "solve_call"
                    /\ UNCHANGED <<s6stack, s6ok>>
               ELSE /\ s6stack' = [s6stack EXCEPT ![Len(s6stack)].i = @ + 1]
                    /\ UNCHANGED <<s6grid, s6ok, s6pc>>
    /\ UNCHANGED <<s6rng, s6target, s6puzzle, s6cells, s6k, s6ret>>
    /\ UNCHANGED <<searchVars, besideEasy>>

\* A call of solve has returned: generate_complete_grid goes on whatever the
\* value; an inner caller passes True on, and on False writes the 0 back and
\* tries its next number.
S6SolveReturn ==
    /\ s6pc = "solve_ret"
    /\ IF s6stack = <<>>
       THEN /\ s6pc' = "target"
            /\ UNCHANGED <<s6stack, s6grid>>
       ELSE LET f == s6stack[Len(s6stack)]
            IN IF s6ok
               THEN /\ s6stack' = SubSeq(s6stack, 1, Len(s6stack) - 1)
                    /\ UNCHANGED <<s6grid, s6pc>>
               ELSE /\ s6grid' = [s6grid EXCEPT ![f.row][f.col] = 0]
                    /\ s6stack' = [s6stack EXCEPT ![Len(s6stack)].i = @ + 1]
                    /\ s6pc' = "solve_loop"
    /\ UNCHANGED <<s6rng, s6ok, s6target, s6puzzle, s6cells, s6k, s6ret>>
    /\ UNCHANGED <<searchVars, besideEasy>>

\* target_clues = random.randint(18, 20), and remove_numbers is entered: the
\* puzzle is a copy of the grid and the cells are shuffled.
S6RemoveNumbers ==
    /\ s6pc = "target"
    /\ \E t \in 18 .. 20 : s6target' = t
    /\ s6puzzle' = s6grid
    /\ LET sh == shuffle(AllCells(6), s6rng)
       IN s6cells' = sh.x /\ s6rng' = sh.rng
    /\ s6k' = 1
    /\ s6pc' = "remove"
    /\ UNCHANGED <<s6grid, s6stack, s6ok, s6ret>>
    /\ UNCHANGED <<searchVars, besideEasy>>

\* remove_numbers without its test of the number of zeros.
S6RemoveStepWithoutStop ==
    /\ s6pc = "remove"
    /\ IF s6k > Len(s6cells)
       THEN /\ s6pc' = "return"
            /\ UNCHANGED <<s6puzzle, searchVars>>
       ELSE LET row == s6cells[s6k][1]
                col == s6cells[s6k][2]
            IN /\ s6backup' = s6puzzle[row][col]
               /\ s6puzzle' = [s6puzzle EXCEPT ![row][col] = 0]
               /\ s6count' = 0
               /\ s6g' = s6puzzle'
               /\ s6frames' = <<>>
               /\ s6pc' = "count_call"
    /\ UNCHANGED <<s6rng, s6grid, s6stack, s6ok, s6target, s6cells, s6k, s6ret>>
    /\ UNCHANGED besideEasy

\* The head of "for row, col in cells" of remove_numbers: the loop ends after
\* the last cell or when 36 - target_clues cells are 0; otherwise the value
\* is backed up, the cell is set to 0 and count_solutions(puzzle, limit=2) is
\* entered: count = [0], solve_count(grid_copy).
S6RemoveStep ==
    /\ s6pc = "remove"
    /\ IF s6k > Len(s6cells) \/ CountZeros(s6puzzle) >= 6 * 6 - s6target
       THEN /\ s6pc' = "return"
            /\ UNCHANGED <<s6puzzle, searchVars>>
       ELSE LET row == s6cells[s6k][1]
                col == s6cells[s6k][2]
            IN /\ s6backup' = s6puzzle[row][col]
               /\ s6puzzle' = [s6puzzle EXCEPT ![row][col] = 0]
               /\ s6count' = 0
               /\ s6g' = s6puzzle'
               /\ s6frames' = <<>>
               /\ s6pc' = "count_call"
    /\ UNCHANGED <<s6rng, s6grid, s6stack, s6ok, s6target, s6cells, s6k, s6ret>>
    /\ UNCHANGED besideEasy

\* solve_count(g) is entered: it returns at once when count has reached the
\* limit of 2; without a 0 it adds one to count; otherwise it takes the first
\* cell with a 0 and starts "for num in range(1, size + 1)".
S6CountCall ==
    /\ s6pc = "count_call"
    /\ IF s6count >= 2
       THEN /\ s6pc' = "count_ret"
            /\ UNCHANGED <<s6count, s6frames>>
       ELSE LET zeros == ZeroCells(s6g)
            IN IF zeros = <<>>
               THEN /\ s6count' = s6count + 1
                    /\ s6pc' = "count_ret"
                    /\ s6frames' = s6frames
               ELSE /\ s6frames' = Append(s6frames, [row |-> zeros[1][1],
                                                     col |-> zeros[1][2], num |-> 1])
                    /\ s6pc' = "count_loop"
                    /\ s6count' = s6count
    /\ UNCHANGED <<s6rng, s6grid, s6stack, s6ok, s6target, s6puzzle, s6cells, s6k,
                   s6ret, s6backup, s6g>>
    /\ UNCHANGED besideEasy

\* One iteration of "for num" in the innermost call of solve_count: a valid
\* number is written and solve_count is called; an invalid one is skipped;
\* after 6 the call returns.
S6CountLoop ==
    /\ s6pc = "count_loop"
    /\ LET f == s6frames[Len(s6frames)]
       IN IF f.num > 6
          THEN /\ s6frames' = SubSeq(s6frames, 1, Len(s6frames) - 1)
               /\ s6pc' = "count_ret"
               /\ s6g' = s6g
          ELSE IF Sudoku6x6_is_valid(s6g, f.row, f.col, f.num)
               THEN /\ s6g' = [s6g EXCEPT ![f.row][f.col] = f.num]
                    /\ s6pc' = "count_call"
                    /\ s6frames' = s6frames
               ELSE /\ s6frames' = [s6frames EXCEPT ![Len(s6frames)].num = @ + 1]
                    /\ UNCHANGED <<s6g, s6pc>>
    /\ UNCHANGED <<s6rng, s6grid, s6stack, s6ok, s6target, s6puzzle, s6cells, s6k,
                   s6ret, s6backup, s6count>>
    /\ UNCHANGED besideEasy

\* A call of solve_count has returned: its caller writes the 0 back and goes
\* on with its next number; count_solutions returns count[0].
S6CountReturn ==
    /\ s6pc = "count_ret"
    /\ IF s6frames = <<>>
       THEN /\ s6pc' = "decide"
            /\ UNCHANGED <<s6g, s6frames>>
       ELSE LET f == s6frames[Len(s6frames)]
            IN /\ s6g' = [s6g EXCEPT ![f.row][f.col] = 0]
               /\ s6frames' = [s6frames EXCEPT ![Len(s6frames)].num = @ + 1]
               /\ s6pc' = "count_loop"
    /\ UNCHANGED <<s6rng, s6grid, s6stack, s6ok, s6target, s6puzzle, s6cells, s6k,
                   s6ret, s6backup, s6count>>
    /\ UNCHANGED besideEasy

\* "if self.count_solutions(puzzle, limit=2) != 1: puzzle[row][col] = backup"
S6Decide ==
    /\ s6pc = "decide"
    /\ s6puzzle' = IF s6count # 1
                   THEN [s6puzzle EXCEPT ![s6cells[s6k][1]][s6cells[s6k][2]] = s6backup]
                   ELSE s6puzzle
    /\ s6k' = s6k + 1
    /\ s6pc' = "remove"
    /\ UNCHANGED <<s6rng, s6grid, s6stack, s6ok, s6target, s6cells, s6ret, searchVars>>
    /\ UNCHANGED besideEasy

\* generate_puzzle returns (puzzle_str, solution_str, clue_count).
S6Return ==
    /\ s6pc = "return"
    /\ LET puzzle_str == JoinRows(s6puzzle, 1, 36)
           solution_str == JoinRows(s6grid, 1, 36)
       IN s6ret' = [puzzle_str |-> puzzle_str, solution_str |-> solution_str,
                    clue_count |-> CountNonZeroChars(puzzle_str)]
    /\ s6pc' = "done"
    /\ UNCHANGED <<s6rng, s6grid, s6stack, s6ok, s6target, s6puzzle, s6cells, s6k>>
    /\ UNCHANGED <<searchVars, besideEasy>>

\* ------------------------------------------------------------------------
\* SuperimposedGenerator.generate and _generate_with_positions; they call
\* generate_puzzle, generate_solved_grid, has_unique_solution and
\* analyze_difficulty and wait for them to return
\* ------------------------------------------------------------------------

\* generate: the defaults for a clue range that is not fully given.
SuperStart ==
    /\ lpc = "start"
    /\ LET defaults == SuperimposedDefaults(scall.size, scall.layers)
       IN IF scall.min_clues = None \/ scall.max_clues = None
          THEN smin' = defaults[1] /\ smax' = defaults[2]
          ELSE smin' = scall.min_clues.some /\ smax' = scall.max_clues.some
    /\ sattempt' = 0
    /\ lpc' = "attempt"
    /\ UNCHANGED <<scall, clue_positions, results, success, layer, pattempt,
                   lpuzzle, layer_result, sret>>
    /\ UNCHANGED <<genVars, solverVars, countVars, besideLayers>>

\* The head of the attempt loop: generate_puzzle is called with
\* max_attempts=50, or the attempts are used up and None is returned.
SuperAttempt ==
    /\ lpc = "attempt"
    /\ IF sattempt < scall.max_attempts
       THEN /\ call' = [size |-> scall.size, target_level |-> scall.target_level,
                        min_clues |-> Some(smin), max_clues |-> Some(smax),
                        max_attempts |-> 50]
            /\ pc' = "start"
            /\ lpc' = "first"
            /\ sret' = sret
       ELSE /\ sret' = None
            /\ lpc' = "done"
            /\ UNCHANGED <<call, pc>>
    /\ UNCHANGED <<scall, sattempt, smin, smax, clue_positions, results, success,
                   layer, pattempt, lpuzzle, layer_result>>
    /\ UNCHANGED <<rng, attempt, min_clues, max_clues, stack, fill_ok, solution,
                   puzzle, cells, k, backup, visit, ret>>
    /\ UNCHANGED <<solverVars, countVars, besideLayers>>

\* generate_puzzle has returned: without a result the next attempt follows;
\* otherwise the clue positions are read off its puzzle and the result is the
\* first of the list.
SuperFirst ==
    /\ lpc = "first"
    /\ pc = "done"
    /\ IF ret = None
       THEN /\ sattempt' = sattempt + 1
            /\ lpc' = "attempt"
            /\ UNCHANGED <<clue_positions, results, success, layer>>
       ELSE /\ clue_positions' = CluePositions(ret.puzzle)
            /\ results' = <<ret>>
            /\ success' = TRUE
            /\ layer' = 1
            /\ lpc' = "layer"
            /\ sattempt' = sattempt
    /\ pc' = "idle"
    /\ UNCHANGED <<scall, smin, smax, pattempt, lpuzzle, layer_result, sret>>
    /\ UNCHANGED <<call, rng, attempt, min_clues, max_clues, stack, fill_ok,
                   solution, puzzle, cells, k, backup, visit, ret>>
    /\ UNCHANGED <<solverVars, countVars, besideLayers>>

\* The head of "for layer in range(1, self.layers)":
\* _generate_with_positions is entered, or the loop is over.
SuperLayer ==
    /\ lpc = "layer"
    /\ IF layer < scall.layers
       THEN pattempt' = 0 /\ lpc' = "pos_attempt"
       ELSE pattempt' = pattempt /\ lpc' = "check"
    /\ UNCHANGED <<scall, sattempt, smin, smax, clue_positions, results, success,
                   layer, lpuzzle, layer_result, sret>>
    /\ UNCHANGED <<genVars, solverVars, countVars, besideLayers>>

\* The head of the loop of _generate_with_positions (max_attempts=50):
\* generate_solved_grid is called, or None is returned.
PositionsAttempt ==
    /\ lpc = "pos_attempt"
    /\ IF pattempt < 50
       THEN /\ solution' = create_grid(SudokuGenerator(scall.size).size)
            /\ stack' = <<>>
            /\ pc' = "fill_call"
            /\ lpc' = "pos_fill"
            /\ layer_result' = layer_result
       ELSE /\ layer_result' = None
            /\ lpc' = "layer_ret"
            /\ UNCHANGED <<solution, stack, pc>>
    /\ UNCHANGED <<scall, sattempt, smin, smax, clue_positions, results, success,
                   layer, pattempt, lpuzzle, sret>>
    /\ UNCHANGED <<call, rng, attempt, min_clues, max_clues, fill_ok, puzzle,
                   cells, k, backup, visit, ret>>
    /\ UNCHANGED <<solverVars, countVars, besideLayers>>

\* The solution is there: the puzzle takes its values at the clue positions
\* and has_unique_solution is called on it.
PositionsPuzzle ==
    /\ lpc = "pos_fill"
    /\ pc = "filled"
    /\ LET made_puzzle == SetPositions(create_grid(scall.size), solution,
                                       clue_positions, 1, Len(clue_positions))
       IN lpuzzle' = made_puzzle /\ asked' = made_puzzle
    /\ cpc' = "unique"
    /\ lpc' = "pos_unique"
    /\ pc' = "idle"
    /\ UNCHANGED <<scall, sattempt, smin, smax, clue_positions, results, success,
                   layer, pattempt, layer_result, sret>>
    /\ UNCHANGED <<call, rng, attempt, min_clues, max_clues, stack, fill_ok,
                   solution, puzzle, cells, k, backup, visit, ret>>
    /\ UNCHANGED <<counted, count, frames, callee, unique>>
    /\ UNCHANGED <<solverVars, besideLayers>>

\* "if not has_unique_solution(puzzle): continue"; otherwise the puzzle is
\* classified.
PositionsUnique ==
    /\ lpc = "pos_unique"
    /\ cpc = "done"
    /\ IF ~unique.some
       THEN /\ pattempt' = pattempt + 1
            /\ lpc' = "pos_attempt"
            /\ UNCHANGED solverVars
       ELSE /\ CallClassifier(lpuzzle)
            /\ lpc' = "pos_level"
            /\ pattempt' = pattempt
    /\ UNCHANGED <<scall, sattempt, smin, smax, clue_positions, results, success,
                   layer, lpuzzle, layer_result, sret>>
    /\ UNCHANGED <<genVars, countVars, besideLayers>>

\* PositionsLevel without the test of the result of analyze_difficulty.
PositionsLevelUntested ==
    /\ lpc = "pos_level"
    /\ spc = "analyzed"
    /\ layer_result' = GeneratorResult(lpuzzle, solution,
                                       analysis.max_technique_level,
                                       analysis.techniques_used, count_clues(lpuzzle))
    /\ lpc' = "layer_ret"
    /\ pattempt' = pattempt
    /\ UNCHANGED <<scall, sattempt, smin, smax, clue_positions, results, success,
                   layer, lpuzzle, sret>>
    /\ UNCHANGED <<genVars, solverVars, countVars, besideLayers>>

\* "if result.solved and target_level <= result.max_technique_level <=
\* target_level + 1": the result is returned; otherwise the next attempt.
PositionsLevel ==
    /\ lpc = "pos_level"
    /\ spc = "analyzed"
    /\ IF /\ analysis.solved
          /\ scall.target_level <= analysis.max_technique_level
          /\ analysis.max_technique_level <= scall.target_level + 1
       THEN /\ layer_result' = GeneratorResult(lpuzzle, solution,
                                               analysis.max_technique_level,
                                               analysis.techniques_used,
                                               count_clues(lpuzzle))
            /\ lpc' = "layer_ret"
            /\ pattempt' = pattempt
       ELSE /\ pattempt' = pattempt + 1
            /\ lpc' = "pos_attempt"
            /\ layer_result' = layer_result
    /\ UNCHANGED <<scall, sattempt, smin, smax, clue_positions, results, success,
                   layer, lpuzzle, sret>>
    /\ UNCHANGED <<genVars, solverVars, countVars, besideLayers>>

\* _generate_with_positions has returned: a result is appended and the next
\* layer follows; without one success is False and the loop is left.
SuperLayerReturn ==
    /\ lpc = "layer_ret"
    /\ IF layer_result # None
       THEN /\ results' = Append(results, layer_result)
            /\ layer' = layer + 1
            /\ lpc' = "layer"
            /\ success' = success
       ELSE /\ success' = FALSE
            /\ lpc' = "check"
            /\ UNCHANGED <<results, layer>>
    /\ UNCHANGED <<scall, sattempt, smin, smax, clue_positions, pattempt, lpuzzle,
                   layer_result, sret>>
    /\ UNCHANGED <<genVars, solverVars, countVars, besideLayers>>

\* SuperCheck without "if success and len(results) == self.layers".
SuperCheckUntested ==
    /\ lpc = "check"
    /\ sret' = Some(results)
    /\ lpc' = "done"
    /\ sattempt' = sattempt
    /\ UNCHANGED <<scall, smin, smax, clue_positions, results, success, layer,
                   pattempt, lpuzzle, layer_result>>
    /\ UNCHANGED <<genVars, solverVars, countVars, besideLayers>>

\* "if success and len(results) == self.layers: return results"; otherwise
\* the next attempt follows.
SuperCheck ==
    /\ lpc = "check"
    /\ IF success /\ Len(results) = scall.layers
       THEN /\ sret' = Some(results)
            /\ lpc' = "done"
            /\ sattempt' = sattempt
       ELSE /\ sattempt' = sattempt + 1
            /\ lpc' = "attempt"
            /\ sret' = sret
    /\ UNCHANGED <<scall, smin, smax, clue_positions, results, success, layer,
                   pattempt, lpuzzle, layer_result>>
    /\ UNCHANGED <<genVars, solverVars, countVars, besideLayers>>

\* ------------------------------------------------------------------------
\* JointSuperimposedGenerator._generate_single; it calls
\* generate_solved_grid and has_unique_solution and waits for them to return
\* ------------------------------------------------------------------------

\* "for _ in range(self.layers)": generate_solved_grid is called for the next
\* layer; after the last the puzzles are copies of the solved grids, the
\* positions are shuffled and every cell counts as a clue.
JointSolved ==
    /\ jpc = "solved"
    /\ IF Len(solved_layers) < jcall.layers
       THEN /\ solution' = create_grid(SudokuGenerator(jcall.size).size)
            /\ stack' = <<>>
            /\ pc' = "fill_call"
            /\ jpc' = "fill"
            /\ UNCHANGED <<rng, puzzle_layers, positions, jk, current_clues>>
       ELSE LET sh == shuffle(AllCells(jcall.size), rng)
            IN /\ puzzle_layers' = [i \in 1 .. Len(solved_layers) |-> copy(solved_layers[i])]
               /\ positions' = sh.x
               /\ rng' = sh.rng
               /\ current_clues' = jcall.size * jcall.size
               /\ jk' = 1
               /\ jpc' = "reduce"
               /\ UNCHANGED <<solution, stack, pc>>
    /\ UNCHANGED <<jcall, solved_layers, backups, jl, all_unique, jret>>
    /\ UNCHANGED <<call, attempt, min_clues, max_clues, fill_ok, puzzle, cells, k,
                   backup, visit, ret>>
    /\ UNCHANGED <<countVars, besideJoint>>

\* generate_solved_grid has returned: "solved_layers.append(grid)".
JointFilled ==
    /\ jpc = "fill"
    /\ pc = "filled"
    /\ solved_layers' = Append(solved_layers, solution)
    /\ pc' = "idle"
    /\ jpc' = "solved"
    /\ UNCHANGED <<jcall, puzzle_layers, positions, jk, current_clues, backups, jl,
                   all_unique, jret>>
    /\ UNCHANGED <<call, rng, attempt, min_clues, max_clues, stack, fill_ok,
                   solution, puzzle, cells, k, backup, visit, ret>>
    /\ UNCHANGED <<countVars, besideJoint>>

\* The head of "for r, c in positions": the loop is over or breaks at
\* min_clues; otherwise the values are backed up and the cell is set to 0 in
\* every layer.
JointRemove ==
    /\ jpc = "reduce"
    /\ IF jk > Len(positions) \/ current_clues <= jcall.min_clues
       THEN /\ jpc' = "final"
            /\ UNCHANGED <<puzzle_layers, backups, all_unique, jl>>
       ELSE LET r == positions[jk][1]
                c == positions[jk][2]
            IN /\ backups' = [i \in 1 .. Len(puzzle_layers) |->
                                 get_value(puzzle_layers[i], r, c)]
               /\ puzzle_layers' = [i \in 1 .. Len(puzzle_layers) |->
                                       set_value(puzzle_layers[i], r, c, 0)]
               /\ all_unique' = TRUE
               /\ jl' = 1
               /\ jpc' = "unique"
    /\ UNCHANGED <<jcall, solved_layers, positions, jk, current_clues, jret>>
    /\ UNCHANGED <<genVars, countVars, besideJoint>>

\* "for layer in puzzle_layers": has_unique_solution is called on the next
\* layer, or the loop is over.
JointAsk ==
    /\ jpc = "unique"
    /\ IF jl <= Len(puzzle_layers)
       THEN /\ asked' = puzzle_layers[jl]
            /\ cpc' = "unique"
            /\ jpc' = "asked"
       ELSE /\ jpc' = "decide"
            /\ UNCHANGED <<asked, cpc>>
    /\ UNCHANGED <<jcall, solved_layers, puzzle_layers, positions, jk,
                   current_clues, backups, jl, all_unique, jret>>
    /\ UNCHANGED <<counted, count, frames, callee, unique>>
    /\ UNCHANGED <<genVars, besideJoint>>

\* "if not has_unique_solution(layer): all_unique = False; break"
JointAnswer ==
    /\ jpc = "asked"
    /\ cpc = "done"
    /\ IF ~unique.some
       THEN all_unique' = FALSE /\ jpc' = "decide" /\ jl' = jl
       ELSE all_unique' = all_unique /\ jpc' = "unique" /\ jl' = jl + 1
    /\ UNCHANGED <<jcall, solved_layers, puzzle_layers, positions, jk,
                   current_clues, backups, jret>>
    /\ UNCHANGED <<genVars, countVars, besideJoint>>

\* JointDecide without the revert.
JointDecideWithoutRevert ==
    /\ jpc = "decide"
    /\ current_clues' = IF all_unique THEN current_clues - 1 ELSE current_clues
    /\ jk' = jk + 1
    /\ jpc' = "reduce"
    /\ UNCHANGED <<jcall, solved_layers, puzzle_layers, positions, backups, jl,
                   all_unique, jret>>
    /\ UNCHANGED <<genVars, countVars, besideJoint>>

\* "if all_unique: current_clues -= 1; else: layer.set_value(r, c,
\* backups[i]) for every layer".
JointDecide ==
    /\ jpc = "decide"
    /\ IF all_unique
       THEN /\ current_clues' = current_clues - 1
            /\ puzzle_layers' = puzzle_layers
       ELSE /\ puzzle_layers' = [i \in 1 .. Len(puzzle_layers) |->
                                    set_value(puzzle_layers[i], positions[jk][1],
                                              positions[jk][2], backups[i])]
            /\ current_clues' = current_clues
    /\ jk' = jk + 1
    /\ jpc' = "reduce"
    /\ UNCHANGED <<jcall, solved_layers, positions, backups, jl, all_unique, jret>>
    /\ UNCHANGED <<genVars, countVars, besideJoint>>

\* "if min_clues <= current_clues <= max_clues": the layers, the clue count
\* and the size are returned; otherwise None.
JointReturn ==
    /\ jpc = "final"
    /\ jret' = IF jcall.min_clues <= current_clues /\ current_clues <= jcall.max_clues
               THEN [layers |-> [i \in 1 .. jcall.layers |->
                                    [initial |-> puzzle_layers[i].grid,
                                     solution |-> solved_layers[i].grid]],
                     clue_count |-> current_clues,
                     size |-> jcall.size]
               ELSE None
    /\ jpc' = "done"
    /\ UNCHANGED <<jcall, solved_layers, puzzle_layers, positions, jk,
                   current_clues, backups, jl, all_unique>>
    /\ UNCHANGED <<genVars, countVars, besideJoint>>

\* ------------------------------------------------------------------------
\* A caller's SudokuGrid object and the functions that work on copies of it
\* ------------------------------------------------------------------------

\* count_solutions(grid, limit=2).
CountLimit == 2

\* The object the call works on: the last one of the chain.
Top == hchain[Len(hchain)].id

\* "x = top.copy()": the copy is the new last object of the chain; the entry
\* remembers the size of the heap before it, the value set in a grid tried,
\* and the values its own loop has tried.
Pushed(kind, value) ==
    [heap |-> copy_object(heap, Top),
     chain |-> Append(hchain, [id |-> Len(heap.objs) + 1, objs |-> Len(heap.objs),
                               store |-> Len(heap.store), kind |-> kind,
                               value |-> value, tried |-> {}])]

\* The heap and the chain without the entries from place j on, a grid tried:
\* the objects of a call that has returned are no longer referred to, and the
\* loop that made the grid has tried its value.
Dropped(j) ==
    [heap |-> [objs |-> SubSeq(heap.objs, 1, hchain[j].objs),
               store |-> SubSeq(heap.store, 1, hchain[j].store)],
     chain |-> [SubSeq(hchain, 1, j - 1) EXCEPT
                   ![j - 1].tried = @ \cup {hchain[j].value}]]

\* is_valid is entered on the object id; back is where the caller goes on.
ScanOf(h, id, back) ==
    [obj |-> id, i |-> 1, val |-> 0, back |-> back, start |-> Deref(h, id)]

\* The caller makes the call.
HCall ==
    /\ hpc = "ready"
    /\ hbefore' = Deref(heap, 1)
    /\ hpc' = "enter"
    /\ UNCHANGED <<heap, hchain, hfn, hscan, hverdict, hceiling, hcount>>
    /\ UNCHANGED besideHeap

\* The first statement of the function: is_valid scans the object itself;
\* copy(), solve ("work_grid = grid.copy()"), analyze_difficulty,
\* _backtrack_solve and count_solutions ("solve_count(grid.copy())", also for
\* has_unique_solution) make a copy.
HEnter ==
    /\ hpc = "enter"
    /\ IF hfn = "is_valid"
       THEN /\ hscan' = ScanOf(heap, 1, "returned")
            /\ hpc' = "valid"
            /\ UNCHANGED <<heap, hchain, hceiling>>
       ELSE /\ heap' = Pushed("work", 0).heap
            /\ hchain' = Pushed("work", 0).chain
            /\ hscan' = hscan
            /\ hpc' = CASE hfn = "copy" -> "mutate"
                        [] hfn = "solve" -> "loop"
                        [] hfn = "analyze_difficulty" -> "ceiling"
                        [] OTHER -> "search"
            /\ hceiling' = CASE hfn = "solve" -> 5
                             [] hfn = "analyze_difficulty" -> 1
                             [] OTHER -> 0
    /\ UNCHANGED <<hfn, hverdict, hbefore, hcount>>
    /\ UNCHANGED besideHeap

\* analyze_difficulty, "for max_lvl in range(1, 6)": solve is called on the
\* work grid and copies it; after the last ceiling _backtrack_solve is called
\* on the work grid and copies it.
HCeiling ==
    /\ hpc = "ceiling"
    /\ heap' = Pushed("work", 0).heap
    /\ hchain' = Pushed("work", 0).chain
    /\ hpc' = IF hceiling <= 5 THEN "loop" ELSE "search"
    /\ UNCHANGED <<hfn, hscan, hverdict, hbefore, hceiling, hcount>>
    /\ UNCHANGED besideHeap

\* One pass over the registry on the work grid: the placements and the
\* eliminations are written into the object in place.
HPass ==
    LET pass == TechniquePass([res |-> SolveResult(FALSE, Deref(heap, Top)), changed |-> FALSE],
                              hceiling, 1, Len(TECHNIQUES))
    IN IF pass.changed
       THEN heap' = WriteInPlace(heap, Top, pass.res.grid) /\ hpc' = "loop"
       ELSE heap' = heap /\ hpc' = "post"

\* "while changed and not work_grid.is_complete()": is_complete calls is_valid
\* when every cell is filled; otherwise a pass follows.
HSolveLoop ==
    /\ hpc = "loop"
    /\ IF AllFilled(Deref(heap, Top))
       THEN /\ hscan' = ScanOf(heap, Top, "tested")
            /\ hpc' = "valid"
            /\ heap' = heap
       ELSE /\ HPass
            /\ hscan' = hscan
    /\ UNCHANGED <<hchain, hfn, hverdict, hbefore, hceiling, hcount>>
    /\ UNCHANGED besideHeap

\* is_valid has returned to the loop test: a complete grid ends the loop, a
\* full grid that is not valid gets a pass.
HSolveTested ==
    /\ hpc = "tested"
    /\ IF hverdict THEN heap' = heap /\ hpc' = "post" ELSE HPass
    /\ UNCHANGED <<hchain, hfn, hscan, hverdict, hbefore, hceiling, hcount>>
    /\ UNCHANGED besideHeap

\* "if work_grid.is_complete()" after the loop.
HSolvePost ==
    /\ hpc = "post"
    /\ IF AllFilled(Deref(heap, Top))
       THEN /\ hscan' = ScanOf(heap, Top, "end")
            /\ hpc' = "valid"
            /\ hverdict' = hverdict
       ELSE /\ hscan' = hscan
            /\ hpc' = "end"
            /\ hverdict' = FALSE
    /\ UNCHANGED <<heap, hchain, hfn, hbefore, hceiling, hcount>>
    /\ UNCHANGED besideHeap

\* The end of solve: a solved grid is returned; otherwise solve of a
\* default-constructed solver calls _backtrack_solve on the work grid, which
\* copies it, and analyze_difficulty goes on to the next ceiling.
HSolveEnd ==
    /\ hpc = "end"
    /\ IF hverdict
       THEN hpc' = "returned" /\ UNCHANGED <<heap, hchain, hceiling>>
       ELSE IF hfn = "solve"
            THEN /\ heap' = Pushed("work", 0).heap
                 /\ hchain' = Pushed("work", 0).chain
                 /\ hpc' = "search"
                 /\ hceiling' = hceiling
            ELSE /\ hceiling' = hceiling + 1
                 /\ hpc' = "ceiling"
                 /\ UNCHANGED <<heap, hchain>>
    /\ UNCHANGED <<hfn, hscan, hverdict, hbefore, hcount>>
    /\ UNCHANGED besideHeap

\* count_solutions and has_unique_solution.
Counting == hfn \in {"count_solutions", "has_unique_solution"}

\* The values the loop of the call under way has yet to try, and the one it
\* tries next: "for value in candidates", in ascending order.
ToTry ==
    LET g == Deref(heap, Top)
    IN Cand(g, FewestCandidatesCell(g)) \ hchain[Len(hchain)].tried

NextToTry == {v \in ToTry : \A w \in ToTry : v <= w}

\* _backtrack_solve and solve_count on the object the call works on: without
\* an empty cell is_valid is called on it; otherwise a candidate of the cell
\* with the fewest is tried: "test_grid = work_grid.copy();
\* test_grid.set_value(row, col, value); test_grid.is_valid()".
HSearch ==
    /\ hpc = "search"
    /\ LET g == Deref(heap, Top)
       IN IF get_empty_cells(g) = <<>>
          THEN /\ hscan' = ScanOf(heap, Top, "leaf")
               /\ UNCHANGED <<heap, hchain>>
          ELSE \E value \in NextToTry :
                  LET cell == FewestCandidatesCell(g)
                      test == Len(heap.objs) + 1
                      written == object_set_value(Pushed("test", value).heap, test,
                                                  cell[1], cell[2], value)
                  IN /\ heap' = written
                     /\ hchain' = Pushed("test", value).chain
                     /\ hscan' = ScanOf(written, test, "branch")
    /\ hpc' = "valid"
    /\ UNCHANGED <<hfn, hverdict, hbefore, hceiling, hcount>>
    /\ UNCHANGED besideHeap

\* is_valid has returned for the grid tried. A valid one is searched:
\* _backtrack_solve copies it on entry; solve_count works on it, and returns
\* at once when the limit is reached. One that is not valid is dropped.
HBranch ==
    /\ hpc = "branch"
    /\ IF hverdict /\ ~(Counting /\ LimitReached(hcount, CountLimit))
       THEN IF Counting
            THEN UNCHANGED <<heap, hchain>>
            ELSE heap' = Pushed("work", 0).heap /\ hchain' = Pushed("work", 0).chain
       ELSE /\ heap' = Dropped(Len(hchain)).heap
            /\ hchain' = Dropped(Len(hchain)).chain
    /\ hpc' = "search"
    /\ UNCHANGED <<hfn, hscan, hverdict, hbefore, hceiling, hcount>>
    /\ UNCHANGED besideHeap

\* The call under way returns, at a full grid or with no value left to try:
\* solve_count counts a valid full grid; a completion _backtrack_solve has
\* found is handed up to the caller; otherwise the search goes on in the call
\* that made the grid tried last, and without such a call the function
\* returns.
HUnwind ==
    /\ \/ hpc = "leaf"
       \/ hpc = "search" /\ get_empty_cells(Deref(heap, Top)) # <<>> /\ ToTry = {}
    /\ LET tests == {j \in 1 .. Len(hchain) : hchain[j].kind = "test"}
           found == hpc = "leaf" /\ hverdict /\ ~Counting
       IN /\ IF found \/ tests = {}
             THEN hpc' = "returned" /\ UNCHANGED <<heap, hchain>>
             ELSE LET last == CHOOSE j \in tests : \A i \in tests : i <= j
                  IN /\ heap' = Dropped(last).heap
                     /\ hchain' = Dropped(last).chain
                     /\ hpc' = "search"
          /\ hcount' = IF hpc = "leaf" /\ hverdict /\ Counting
                       THEN hcount + 1 ELSE hcount
    /\ UNCHANGED <<hfn, hscan, hverdict, hbefore, hceiling>>
    /\ UNCHANGED besideHeap

\* is_valid at the head of "for r ... for c ...": an empty cell is passed
\* over; the value of a filled cell is taken out ("self.grid[r][c] = 0").
HValidCell ==
    /\ hpc = "valid" /\ hscan.val = 0
    /\ LET g == Deref(heap, hscan.obj)
       IN IF hscan.i > g.size * g.size
          THEN /\ hverdict' = TRUE
               /\ hpc' = hscan.back
               /\ UNCHANGED <<heap, hscan>>
          ELSE LET p == AllCells(g.size)[hscan.i]
               IN /\ IF g.grid[p[1]][p[2]] = 0
                     THEN /\ hscan' = [hscan EXCEPT !.i = @ + 1]
                          /\ heap' = heap
                     ELSE /\ hscan' = [hscan EXCEPT !.val = g.grid[p[1]][p[2]]]
                          /\ heap' = object_set_cell(heap, hscan.obj, p[1], p[2], 0)
                  /\ UNCHANGED <<hverdict, hpc>>
    /\ UNCHANGED <<hchain, hfn, hbefore, hceiling, hcount>>
    /\ UNCHANGED besideHeap

\* HValidCheck without "self.grid[r][c] = val" before "return False".
HValidCheckWithoutRestore ==
    /\ hpc = "valid" /\ hscan.val # 0
    /\ LET g == Deref(heap, hscan.obj)
           p == AllCells(g.size)[hscan.i]
       IN IF \/ InRow(g, p[1], hscan.val)
             \/ InCol(g, p[2], hscan.val)
             \/ InBox(g, p[1], p[2], hscan.val)
          THEN /\ heap' = heap
               /\ hverdict' = FALSE
               /\ hpc' = hscan.back
               /\ hscan' = [hscan EXCEPT !.val = 0]
          ELSE /\ heap' = object_set_cell(heap, hscan.obj, p[1], p[2], hscan.val)
               /\ hscan' = [hscan EXCEPT !.i = @ + 1, !.val = 0]
               /\ UNCHANGED <<hverdict, hpc>>
    /\ UNCHANGED <<hchain, hfn, hbefore, hceiling, hcount>>
    /\ UNCHANGED besideHeap

\* is_valid with the value taken out: the row, then the column, then the box
\* is looked through; on each of the three ways out, and when none holds the
\* value, it is written back first.
HValidCheck ==
    /\ hpc = "valid" /\ hscan.val # 0
    /\ LET g == Deref(heap, hscan.obj)
           p == AllCells(g.size)[hscan.i]
           restored == object_set_cell(heap, hscan.obj, p[1], p[2], hscan.val)
       IN IF InRow(g, p[1], hscan.val)
          THEN /\ heap' = restored
               /\ hverdict' = FALSE /\ hpc' = hscan.back
               /\ hscan' = [hscan EXCEPT !.val = 0]
          ELSE IF InCol(g, p[2], hscan.val)
               THEN /\ heap' = restored
                    /\ hverdict' = FALSE /\ hpc' = hscan.back
                    /\ hscan' = [hscan EXCEPT !.val = 0]
               ELSE IF InBox(g, p[1], p[2], hscan.val)
                    THEN /\ heap' = restored
                         /\ hverdict' = FALSE /\ hpc' = hscan.back
                         /\ hscan' = [hscan EXCEPT !.val = 0]
                    ELSE /\ heap' = restored
                         /\ hscan' = [hscan EXCEPT !.i = @ + 1, !.val = 0]
                         /\ UNCHANGED <<hverdict, hpc>>
    /\ UNCHANGED <<hchain, hfn, hbefore, hceiling, hcount>>
    /\ UNCHANGED besideHeap

\* After copy(): the caller calls set_value or remove_candidate on the
\* original or on the copy.
HMutate ==
    /\ hpc = "mutate"
    /\ \E target \in {1, 2}, p \in ApiCells, value \in 0 .. MaxApiValue :
          /\ \/ heap' = object_set_value(heap, target, p[1], p[2], value)
             \/ /\ value > 0
                /\ heap' = object_remove_candidate(heap, target, p[1], p[2], value)
          /\ hscan' = ScanOf(heap, target, "mutated")
    /\ hpc' = "mutated"
    /\ UNCHANGED <<hchain, hfn, hverdict, hbefore, hceiling, hcount>>
    /\ UNCHANGED besideHeap
\* ------------------------------------------------------------------------
\* The inputs of the specifications
\* ------------------------------------------------------------------------

\* The bounds of the model.
NumSeeds == 2

MaxAttempts == 2

NumFillSeeds == 6

MaxCleared == 2

MaxLimit == 3

NumScribbles == 40

MaxSize == 17

NumEasySeeds == 8

NumSuperSeeds == 2

NumJointSeeds == 3

MaxSuperAttempts == 2

MaxMisled == 4

MaxOff == 1

RECURSIVE Pow10(_)
Pow10(n) == IF n = 0 THEN 1 ELSE 10 * Pow10(n - 1)

\* A grid is written as one decimal number per row, a digit per cell, 0 for a
\* blank (leading zeros are not written). RowsText is the string of its
\* size*size digits, and GridOf the grid that from_string reads from it.
RowsText(size, rows) ==
    [i \in 1 .. (size * size) |->
        DigitChars[((rows[((i - 1) \div size) + 1]
                       \div Pow10(size - 1 - ((i - 1) % size))) % 10) + 1]]

GridOf(size, rows) == from_string(RowsText(size, rows), size, 0, 0)

Given(size, puzzle_rows, solution_rows) ==
    [puzzle |-> GridOf(size, puzzle_rows), solution |-> GridOf(size, solution_rows)]

\* Puzzles with one solution each, cut from the solution beside them.
Givens6 ==
    { Given(6, <<2001, 600000, 0, 603, 506, 20010>>,
               <<352461, 641235, 463152, 215643, 134526, 526314>>),
      Given(6, <<20000, 1050, 0, 453010, 3, 300040>>,
               <<524361, 631452, 216534, 453216, 145623, 362145>>),
      Given(6, <<60000, 400260, 5010, 600000, 30, 40001>>,
               <<362145, 451263, 235416, 614352, 126534, 543621>>),
      Given(6, <<600010, 1000, 2050, 400200, 530, 1>>,
               <<624315, 531426, 362154, 415263, 146532, 253641>>),
      Given(6, <<610300, 300200, 2, 500, 3005, 540000>>,
               <<612354, 354216, 135462, 426531, 263145, 541623>>),
      Given(6, <<510000, 4006, 1030, 40200, 2400, 0>>,
               <<516342, 324516, 251634, 643251, 132465, 465123>>),
      Given(6, <<30600, 100003, 500, 540310, 10060, 50000>>,
               <<234651, 165423, 321546, 546312, 413265, 652134>>) }

Givens9 ==
    { Given(9, <<4008030, 10005, 809, 7300010, 90001050, 510006903, 300000007, 50000, 60042080>>,
               <<754968132, 839217465, 126534879, 487395216, 693421758, 512876943, 341689527, 278153694, 965742381>>),
      Given(9, <<820067, 7003000, 900007000, 0, 1305, 500000108, 95400000, 800160400, 70030080>>,
               <<351824967, 687593214, 942617853, 218359746, 764281395, 539746128, 195478632, 823165479, 476932581>>) }

\* The puzzle with its first n clues (row-major) cleared as well: a puzzle of
\* the same solution that may have further solutions.
Cleared(g, n) ==
    LET clues == SelectSeq(AllCells(g.size), LAMBDA p : g.grid[p[1]][p[2]] # 0)
    IN recalculate_candidates(
         [g EXCEPT !.grid = [r \in Range(g.size) |-> [c \in Range(g.size) |->
            IF \E i \in 1 .. Min2(n, Len(clues)) : clues[i] = <<r, c>>
            THEN 0 ELSE g.grid[r][c]]]])

\* The puzzle with its first empty cell set to a candidate other than the
\* solution's value there (the clues stay free of duplicates), when the cell
\* has one; and with its first empty cell set to the value of the first clue of
\* the same row (a duplicate clue), when the row has one.
Misled(gv) ==
    LET p == get_empty_cells(gv.puzzle)[1]
        others == Cand(gv.puzzle, p) \ {gv.solution.grid[p[1]][p[2]]}
    IN IF others = {} THEN gv.puzzle
       ELSE set_value(gv.puzzle, p[1], p[2], CHOOSE v \in others : TRUE)

Clashing(gv) ==
    LET p == get_empty_cells(gv.puzzle)[1]
        inRow == {c \in Range(gv.puzzle.size) : gv.puzzle.grid[p[1]][c] # 0}
    IN IF inRow = {} THEN gv.puzzle
       ELSE set_value(gv.puzzle, p[1], p[2],
                      gv.puzzle.grid[p[1]][CHOOSE c \in inRow : TRUE])

\* The puzzles with the i-th empty cell set to a candidate other than the
\* solution's value there: the clues stay free of duplicates, and no
\* completion is left when the puzzle had one solution.
MisledAt(gv, i) ==
    LET empty == get_empty_cells(gv.puzzle)
        p == empty[i]
    IN IF i > Len(empty) THEN {}
       ELSE {set_value(gv.puzzle, p[1], p[2], v) :
                v \in Cand(gv.puzzle, p) \ {gv.solution.grid[p[1]][p[2]]}}

\* The solved grid with four cells blanked that lie in two rows, two columns
\* and two boxes and hold two values crosswise, when it has such cells: the
\* two values can be written back in two ways.
TwoWay(s) ==
    LET rectangles ==
            {q \in (Range(s.size) \X Range(s.size)) \X (Range(s.size) \X Range(s.size)) :
                /\ q[1][1] < q[2][1]
                /\ q[1][2] < q[2][2]
                /\ s.grid[q[1][1]][q[1][2]] = s.grid[q[2][1]][q[2][2]]
                /\ s.grid[q[1][1]][q[2][2]] = s.grid[q[2][1]][q[1][2]]
                /\ \/ q[1][1] \div s.box_rows = q[2][1] \div s.box_rows
                   \/ q[1][2] \div s.box_cols = q[2][2] \div s.box_cols}
    IN IF rectangles = {} THEN s
       ELSE LET q == CHOOSE x \in rectangles : TRUE
            IN recalculate_candidates(
                 [s EXCEPT !.grid = [r \in Range(s.size) |-> [c \in Range(s.size) |->
                    IF r \in {q[1][1], q[2][1]} /\ c \in {q[1][2], q[2][2]}
                    THEN 0 ELSE s.grid[r][c]]]])

\* A grid of the given size whose cell values in 0..size are drawn from the
\* pseudo-random stream of a seed, set by set_value in row-major order; rows,
\* columns and boxes may hold duplicates.
Scribble(size, seed) ==
    ReplayFilled(
        [create_grid(size) EXCEPT !.grid = [r \in Range(size) |-> [c \in Range(size) |->
            (NextRand(NextRand(seed * 97 + r * size + c)) * (size + 1)) \div 65536]]],
        1, size * size)

Seeded(n) == {[tape |-> FALSE, s |-> seed, calls |-> 0, fades |-> 0] : seed \in 1 .. n}

Recorded == [tape |-> TRUE, s |-> 0, calls |-> 0, fades |-> 0]

Call(size, target_level, min, max, max_attempts) ==
    [size |-> size, target_level |-> target_level, min_clues |-> min,
     max_clues |-> max, max_attempts |-> max_attempts]

\* The calls of generate_puzzle: on a 6x6 grid with the default range of level
\* 1, with a wider range, with the range of level 5 and with a range above the
\* number of cells; on a 9x9 grid the call for level 1 with 40 to 50 clues.
Calls6 ==
    {Call(6, x[1], x[2], x[3], a) :
        x \in {<<1, None, None>>, <<1, Some(24), Some(30)>>,
               <<5, Some(8), Some(12)>>, <<1, Some(40), Some(50)>>},
        a \in 0 .. MaxAttempts}

Calls9 == {Call(9, 1, Some(40), Some(50), 1)}

\* On a 9x9 grid the call for level 1 with 30 to 36 clues: its scan goes on
\* to puzzles the classifier does not solve, or solves above level 2.
Calls9Fewer == {Call(9, 1, Some(30), Some(36), 1)}

\* On a 6x6 grid the calls for the levels 1, 2 and 3 with ranges above 17
\* clues: for the levels 2 and 3 the scan reaches min_clues with puzzles of a
\* lower level.
CallsScan ==
    {Call(6, 1, Some(24), Some(30), 1), Call(6, 2, Some(24), Some(30), 1),
     Call(6, 3, Some(20), Some(24), 1)}

\* Grid objects for the validator. WithRows has n rows (added rows are blank),
\* WithRowLength has len cells in row i (added cells are blank), WithCell has
\* the value v written into the list, WithSize has another size attribute.
WithRows(g, n) ==
    [g EXCEPT !.grid = [r \in Range(n) |->
        IF r < g.size THEN g.grid[r] ELSE [c \in Range(g.size) |-> 0]]]

WithRowLength(g, i, len) ==
    [g EXCEPT !.grid[i] = [c \in Range(len) |-> IF c < g.size THEN g.grid[i][c] ELSE 0]]

WithCell(g, r, c, v) == [g EXCEPT !.grid[r][c] = v]

WithSize(g, size) == [g EXCEPT !.size = size]

ShapedGrids ==
    {gv.puzzle : gv \in Givens6 \cup Givens9}
        \cup {gv.solution : gv \in Givens6 \cup Givens9}
        \cup {Scribble(size, seed) : size \in {6, 9}, seed \in 1 .. NumSeeds}

ValidatorGrids ==
    ShapedGrids
        \cup {WithRows(g, g.size + d) : g \in ShapedGrids, d \in (0 - MaxOff) .. MaxOff}
        \cup UNION {{WithRowLength(g, i, g.size + d) : i \in {0, g.size - 1},
                                                      d \in (0 - MaxOff) .. MaxOff} : g \in ShapedGrids}
        \cup UNION {{WithCell(g, p[1], p[2], v) : p \in {<<0, 0>>, <<g.size - 1, g.size - 1>>},
                                                v \in {0 - 1, g.size + 1}} : g \in ShapedGrids}
        \cup {WithSize(g, 4) : g \in ShapedGrids}

\* The grids the functions that work on copies are called with: the given
\* puzzles, the puzzles with clues cleared, and solved grids with four cells
\* blanked that can be completed in two ways.
HeapPuzzles ==
    {Cleared(gv.puzzle, n) : gv \in Givens6, n \in {0, MaxCleared}}

HeapSearchGrids ==
    {Cleared(gv.puzzle, MaxCleared) : gv \in Givens6}
        \cup {TwoWay(gv.solution) : gv \in Givens6}
        \cup UNION {MisledAt(gv, 1) : gv \in Givens6}

\* The grids is_valid is called on: puzzles, solved grids, and the puzzles
\* after set_value has written the first clue's value into an empty cell of
\* the first rows, which may repeat it in a row, a column or a box.
Planted(g) ==
    LET clue == CHOOSE p \in Range(g.size) \X Range(g.size) :
                    /\ g.grid[p[1]][p[2]] # 0
                    /\ \A q \in Range(g.size) \X Range(g.size) :
                          g.grid[q[1]][q[2]] # 0 =>
                             q[1] * g.size + q[2] >= p[1] * g.size + p[2]
    IN {set_value(g, r, c, g.grid[clue[1]][clue[2]]) :
           r \in Range(g.box_rows), c \in Range(g.size)}

HeapValidGrids ==
    {gv.puzzle : gv \in Givens6} \cup {gv.solution : gv \in Givens6}
        \cup UNION {Planted(gv.puzzle) : gv \in Givens6}

HeapCalls ==
    ({"solve", "analyze_difficulty"} \X HeapPuzzles)
        \cup ({"_backtrack_solve", "count_solutions", "has_unique_solution"} \X HeapSearchGrids)
        \cup ({"is_valid"} \X HeapValidGrids)
        \cup ({"copy"} \X {gv.puzzle : gv \in Givens6})
\* ------------------------------------------------------------------------
\* Initial states and specifications
\* ------------------------------------------------------------------------

GenIdle ==
    /\ call = None /\ rng = None /\ pc = "idle" /\ attempt = 0
    /\ min_clues = 0 /\ max_clues = 0 /\ stack = <<>> /\ fill_ok = FALSE
    /\ solution = None /\ puzzle = None /\ cells = <<>> /\ k = 0 /\ backup = 0
    /\ visit = "none" /\ ret = None

SolverIdle ==
    /\ given = None /\ solver = None /\ spc = "idle" /\ solving = None
    /\ result = None /\ changed = FALSE /\ work_grid = None /\ max_lvl = 0
    /\ analysis = None

CountIdle ==
    /\ asked = None /\ counted = None /\ cpc = "idle" /\ count = 0
    /\ frames = <<>> /\ callee = None /\ unique = None

TextIdle ==
    /\ original = None /\ tpc = "idle" /\ text = <<>> /\ parsed = None

GridIdle ==
    /\ board = None /\ gop = "idle" /\ gn = 0 /\ gcall = <<>> /\ gprev = None

SizeIdle ==
    /\ entry = "none" /\ size_arg = 0 /\ text_arg = <<>> /\ made = None /\ epc = "idle"

ValidIdle ==
    /\ vgrid = None /\ vpc = "idle" /\ errors = <<>> /\ verdict = None

EasyIdle ==
    /\ s6pc = "idle" /\ s6rng = None /\ s6grid = None /\ s6stack = <<>>
    /\ s6ok = FALSE /\ s6target = 0 /\ s6puzzle = None /\ s6cells = <<>>
    /\ s6k = 0 /\ s6ret = None /\ s6backup = 0 /\ s6count = 0 /\ s6g = None
    /\ s6frames = <<>>

LayersIdle ==
    /\ scall = None /\ lpc = "idle" /\ sattempt = 0 /\ smin = 0 /\ smax = 0
    /\ clue_positions = <<>> /\ results = <<>> /\ success = FALSE /\ layer = 0
    /\ pattempt = 0 /\ lpuzzle = None /\ layer_result = None /\ sret = None

JointIdle ==
    /\ jcall = None /\ jpc = "idle" /\ solved_layers = <<>> /\ puzzle_layers = <<>>
    /\ positions = <<>> /\ jk = 0 /\ current_clues = 0 /\ backups = <<>>
    /\ jl = 0 /\ all_unique = FALSE /\ jret = None

HeapIdle ==
    /\ heap = None /\ hchain = <<>> /\ hfn = "none" /\ hpc = "idle" /\ hscan = None
    /\ hverdict = None /\ hbefore = None /\ hceiling = 0 /\ hcount = 0

AuxIdle == GridIdle /\ SizeIdle /\ ValidIdle /\ EasyIdle /\ LayersIdle /\ JointIdle /\ HeapIdle

\* generate_puzzle is called.
GenReady ==
    /\ pc = "start" /\ attempt = 0
    /\ min_clues = 0 /\ max_clues = 0 /\ stack = <<>> /\ fill_ok = FALSE
    /\ solution = None /\ puzzle = None /\ cells = <<>> /\ k = 0 /\ backup = 0
    /\ visit = "none" /\ ret = None

\* generate_puzzle on both sizes, with the solver and the counter it calls.
Init ==
    /\ \/ call \in Calls6 /\ rng \in Seeded(NumSeeds)
       \/ call \in Calls9 /\ rng \in Seeded(NumSeeds) \cup {Recorded}
       \/ call \in Calls9Fewer /\ rng \in {Recorded}
    /\ GenReady
    /\ SolverIdle /\ CountIdle /\ TextIdle /\ AuxIdle

Next ==
    \/ GenerateStart
    \/ AttemptLoop
    \/ FillCall
    \/ FillLoop
    \/ FillReturn
    \/ CreatePuzzle
    \/ ScanHead
    \/ ScanLevel
    \/ RemoveCell
    \/ CheckUnique
    \/ CheckDifficulty
    \/ Classify
    \/ FinishAttempt
    \/ AnalyzeStart
    \/ AnalyzeCeiling
    \/ SolveStart
    \/ SolvePass
    \/ SolveFinish
    \/ AnalyzeAttempt
    \/ HasUnique
    \/ CountStart
    \/ CountEnter
    \/ CountLoop
    \/ CountReturn

Spec == Init /\ [][Next]_vars

\* generate_puzzle runs on until it returns: a call that has not returned
\* takes its next step (weak fairness of Next, which is enabled exactly
\* until pc = "done").
SpecFair == Init /\ [][Next]_vars /\ ([]<>(pc = "done") \/ []<><<Next>>_vars)

\* generate_puzzle for the levels 1, 2 and 3 on a 6x6 grid.
InitScan ==
    /\ call \in CallsScan /\ rng \in Seeded(NumSeeds)
    /\ GenReady
    /\ SolverIdle /\ CountIdle /\ TextIdle /\ AuxIdle

SpecScan == InitScan /\ [][Next]_vars

\* The fill alone, for more seeds: generate_puzzle up to the return of
\* generate_solved_grid.
InitFill ==
    /\ call \in {Call(size, 1, None, None, 1) : size \in {6, 9}}
    /\ rng \in Seeded(NumFillSeeds)
    /\ GenReady
    /\ SolverIdle /\ CountIdle /\ TextIdle /\ AuxIdle

NextFill ==
    \/ GenerateStart
    \/ AttemptLoop
    \/ FillCall
    \/ FillLoop
    \/ FillReturn

SpecFill == InitFill /\ [][NextFill]_vars

\* The solver on the given puzzles, and on the puzzles with clues cleared:
\* solve, or analyze_difficulty, is called on an instance.
SolverInputs ==
    {[gv EXCEPT !.puzzle = Cleared(gv.puzzle, n)] :
        gv \in Givens6 \cup Givens9, n \in 0 .. MaxCleared}

InitSolver ==
    /\ given \in SolverInputs
    /\ \/ /\ spc = "solve"
          /\ solver \in [max_level : 1 .. 5, allow_backtracking : {FALSE}]
                        \cup [max_level : {1, 5}, allow_backtracking : {TRUE}]
       \/ /\ spc = "analyze"
          /\ solver \in [max_level : {5}, allow_backtracking : BOOLEAN]
    /\ solving = [max_level |-> solver.max_level,
                  allow_backtracking |-> solver.allow_backtracking,
                  grid |-> given.puzzle, caller |-> "caller"]
    /\ result = None /\ changed = FALSE /\ work_grid = None /\ max_lvl = 0
    /\ analysis = None
    /\ GenIdle /\ CountIdle /\ TextIdle /\ AuxIdle

\* solve without backtracking at each of the ceilings.
InitCeilings ==
    /\ given \in SolverInputs
    /\ spc = "solve"
    /\ solver \in [max_level : 1 .. 5, allow_backtracking : {FALSE}]
    /\ solving = [max_level |-> solver.max_level,
                  allow_backtracking |-> solver.allow_backtracking,
                  grid |-> given.puzzle, caller |-> "caller"]
    /\ result = None /\ changed = FALSE /\ work_grid = None /\ max_lvl = 0
    /\ analysis = None
    /\ GenIdle /\ CountIdle /\ TextIdle /\ AuxIdle

NextCeilings ==
    \/ SolveStart
    \/ SolvePass
    \/ SolveFinish

SpecCeilings == InitCeilings /\ [][NextCeilings]_vars

\* The solver on valid grids of any kind: the puzzles above, and puzzles with
\* a wrong value in one cell.
MisledInputs ==
    UNION {{[gv EXCEPT !.puzzle = g] : g \in MisledAt(gv, i)} :
              gv \in Givens6, i \in 1 .. MaxMisled}

InitSolverAny ==
    /\ given \in SolverInputs \cup MisledInputs
    /\ \/ /\ spc = "solve"
          /\ solver \in [max_level : {1, 3, 5}, allow_backtracking : {FALSE}]
       \/ /\ spc = "analyze"
          /\ solver \in [max_level : {5}, allow_backtracking : {TRUE}]
    /\ solving = [max_level |-> solver.max_level,
                  allow_backtracking |-> solver.allow_backtracking,
                  grid |-> given.puzzle, caller |-> "caller"]
    /\ result = None /\ changed = FALSE /\ work_grid = None /\ max_lvl = 0
    /\ analysis = None
    /\ GenIdle /\ CountIdle /\ TextIdle /\ AuxIdle

NextSolver ==
    \/ AnalyzeStart
    \/ AnalyzeCeiling
    \/ SolveStart
    \/ SolvePass
    \/ SolveFinish
    \/ AnalyzeAttempt

SpecSolver == InitSolver /\ [][NextSolver]_vars

SpecSolverAny == InitSolverAny /\ [][NextSolver]_vars

\* The solver runs on until it returns: a call that has not returned takes
\* its next step (weak fairness of NextSolver, which is enabled exactly until
\* spc is "done" or "analyzed").
SpecSolverFair ==
    InitSolverAny /\ [][NextSolver]_vars
        /\ ([]<>(spc \in {"done", "analyzed"}) \/ []<><<NextSolver>>_vars)

\* solve with backtracking allowed, on the puzzles above and on puzzles with a
\* wrong value in one cell (which have no completion).
InitBacktrack ==
    /\ given \in SolverInputs \cup MisledInputs
    /\ spc = "solve"
    /\ solver \in [max_level : {1, 5}, allow_backtracking : {TRUE}]
    /\ solving = [max_level |-> solver.max_level,
                  allow_backtracking |-> solver.allow_backtracking,
                  grid |-> given.puzzle, caller |-> "caller"]
    /\ result = None /\ changed = FALSE /\ work_grid = None /\ max_lvl = 0
    /\ analysis = None
    /\ GenIdle /\ CountIdle /\ TextIdle /\ AuxIdle

NextBacktrack ==
    \/ SolveStart
    \/ SolvePass
    \/ SolveFinish

SpecBacktrack == InitBacktrack /\ [][NextBacktrack]_vars

\* The counter on unique puzzles, on puzzles with clues cleared, on puzzles
\* with a wrong or a duplicate clue, on complete grids and on grids with two
\* completions: count_solutions with a limit, or has_unique_solution, is
\* called.
CountGrids ==
    {Cleared(gv.puzzle, n) : gv \in Givens6, n \in 0 .. MaxCleared}
        \cup {Misled(gv) : gv \in Givens6}
        \cup {Clashing(gv) : gv \in Givens6}
        \cup {gv.solution : gv \in Givens6}
        \cup {TwoWay(gv.solution) : gv \in Givens6}
        \cup {Scribble(6, seed) : seed \in 1 .. NumSeeds}

InitCount ==
    /\ \/ /\ cpc = "count"
          /\ counted \in [grid : CountGrids, limit : 0 .. MaxLimit, caller : {"caller"}]
          /\ asked = None
       \/ /\ cpc = "unique"
          /\ asked \in CountGrids
          /\ counted = None
    /\ count = 0 /\ frames = <<>> /\ callee = None /\ unique = None
    /\ GenIdle /\ SolverIdle /\ TextIdle /\ AuxIdle

NextCount ==
    \/ HasUnique
    \/ CountStart
    \/ CountEnter
    \/ CountLoop
    \/ CountReturn

SpecCount == InitCount /\ [][NextCount]_vars

\* to_string and from_string on grids of both sizes.
TextGrids ==
    {Scribble(size, seed) : size \in {6, 9}, seed \in 1 .. NumScribbles}
        \cup {gv.puzzle : gv \in Givens6 \cup Givens9}
        \cup {Grid6x6, Grid9x9}

InitText ==
    /\ original \in TextGrids
    /\ tpc = "to_string" /\ text = <<>> /\ parsed = None
    /\ GenIdle /\ SolverIdle /\ CountIdle /\ AuxIdle

NextText ==
    \/ CallToString
    \/ CallFromString

SpecText == InitText /\ [][NextText]_vars


\* The SudokuGrid methods on a grid a caller holds, and the fill of the
\* generator on its own grid: either a caller takes a grid (a new one, or a
\* given puzzle) and calls methods on it, or generate_solved_grid runs.
GridStarts ==
    {Grid6x6, Grid9x9} \cup {gv.puzzle : gv \in Givens6 \cup Givens9}

InitGrid ==
    \/ /\ board \in GridStarts /\ gop = "new" /\ gn = 0 /\ gcall = <<>> /\ gprev = None
       /\ GenIdle /\ SolverIdle /\ CountIdle /\ TextIdle /\ SizeIdle /\ ValidIdle /\ EasyIdle /\ LayersIdle /\ JointIdle /\ HeapIdle
    \/ /\ call \in {Call(size, 1, None, None, 1) : size \in {6, 9}}
       /\ rng \in Seeded(NumSeeds)
       /\ GenReady
       /\ SolverIdle /\ CountIdle /\ TextIdle /\ AuxIdle

NextGrid ==
    \/ GridSetValue
    \/ GridRemoveCandidate
    \/ GridCopy
    \/ GridFromString
    \/ GridRemoveClue
    \/ GenerateStart
    \/ AttemptLoop
    \/ FillCall
    \/ FillLoop
    \/ FillReturn

SpecGrid == InitGrid /\ [][NextGrid]_vars

\* The entry points that take a size, called with the sizes 1 .. MaxSize;
\* from_string gets a string with no cell, a blank cell or a filled cell.
SizeTexts == {<<>>, <<"0">>, <<"5">>}

InitSize ==
    /\ entry \in {"create_grid", "from_string", "SudokuGenerator"}
    /\ size_arg \in 1 .. MaxSize
    /\ text_arg \in (IF entry = "from_string" THEN SizeTexts ELSE {<<>>})
    /\ made = None /\ epc = "call"
    /\ GenIdle /\ SolverIdle /\ CountIdle /\ TextIdle /\ GridIdle /\ ValidIdle /\ EasyIdle /\ LayersIdle /\ JointIdle /\ HeapIdle

NextSize ==
    \/ CallCreateGrid
    \/ CallFromStringOfSize
    \/ CallSudokuGenerator

SpecSize == InitSize /\ [][NextSize]_vars

\* validate_puzzle on grids and on grid objects out of shape: rows missing or
\* added, a row too short or too long, a value outside 0..size, a size that
\* is neither 6 nor 9.
InitValid ==
    /\ vgrid \in ValidatorGrids
    /\ vpc = "structure" /\ errors = <<>> /\ verdict = None
    /\ GenIdle /\ SolverIdle /\ CountIdle /\ TextIdle /\ GridIdle /\ SizeIdle /\ EasyIdle /\ LayersIdle /\ JointIdle /\ HeapIdle

NextValid ==
    \/ ValidateStructure
    \/ ValidateDuplicates
    \/ ValidateRange
    \/ ValidateReturn

SpecValid == InitValid /\ [][NextValid]_vars

\* Sudoku6x6Generator.generate_puzzle under several streams of random.
InitEasy ==
    /\ s6pc = "generate" /\ s6rng \in Seeded(NumEasySeeds)
    /\ s6grid = None /\ s6stack = <<>> /\ s6ok = FALSE /\ s6target = 0
    /\ s6puzzle = None /\ s6cells = <<>> /\ s6k = 0 /\ s6ret = None
    /\ s6backup = 0 /\ s6count = 0 /\ s6g = None /\ s6frames = <<>>
    /\ GenIdle /\ SolverIdle /\ CountIdle /\ TextIdle
    /\ GridIdle /\ SizeIdle /\ ValidIdle /\ LayersIdle /\ JointIdle /\ HeapIdle

NextEasy ==
    \/ S6CompleteGrid
    \/ S6SolveCall
    \/ S6SolveLoop
    \/ S6SolveReturn
    \/ S6RemoveNumbers
    \/ S6RemoveStep
    \/ S6CountCall
    \/ S6CountLoop
    \/ S6CountReturn
    \/ S6Decide
    \/ S6Return

SpecEasy == InitEasy /\ [][NextEasy]_vars

\* SuperimposedGenerator(size, layers).generate(...): 6x6 grids at target
\* level 1, two layers with the default clue range and three layers with 18
\* to 20 clues, under pseudo-random streams and streams that fade after the
\* 37 shuffles of a first attempt of generate_puzzle.
SuperCalls ==
    {[size |-> 6, layers |-> 2, target_level |-> 1, min_clues |-> None,
      max_clues |-> None, max_attempts |-> ma] : ma \in 0 .. MaxSuperAttempts}
    \cup {[size |-> 6, layers |-> 3, target_level |-> 1, min_clues |-> Some(18),
           max_clues |-> Some(20), max_attempts |-> 1]}

SuperStreams ==
    Seeded(NumSuperSeeds) \cup {[r EXCEPT !.fades = 37] : r \in Seeded(NumSuperSeeds)}

InitLayers ==
    /\ scall \in SuperCalls /\ rng \in SuperStreams
    /\ lpc = "start" /\ sattempt = 0 /\ smin = 0 /\ smax = 0
    /\ clue_positions = <<>> /\ results = <<>> /\ success = FALSE /\ layer = 0
    /\ pattempt = 0 /\ lpuzzle = None /\ layer_result = None /\ sret = None
    /\ call = None /\ pc = "idle" /\ attempt = 0
    /\ min_clues = 0 /\ max_clues = 0 /\ stack = <<>> /\ fill_ok = FALSE
    /\ solution = None /\ puzzle = None /\ cells = <<>> /\ k = 0
    /\ backup = 0 /\ visit = "none" /\ ret = None
    /\ SolverIdle /\ CountIdle /\ TextIdle
    /\ GridIdle /\ SizeIdle /\ ValidIdle /\ EasyIdle /\ JointIdle /\ HeapIdle

NextLayers ==
    \/ SuperStart \/ SuperAttempt \/ SuperFirst \/ SuperLayer
    \/ PositionsAttempt \/ PositionsPuzzle \/ PositionsUnique \/ PositionsLevel
    \/ SuperLayerReturn \/ SuperCheck
    \/ GenerateStart \/ AttemptLoop \/ FillCall \/ FillLoop \/ FillReturn
    \/ CreatePuzzle \/ ScanHead \/ ScanLevel \/ RemoveCell \/ CheckUnique
    \/ CheckDifficulty \/ Classify \/ FinishAttempt
    \/ AnalyzeStart \/ AnalyzeCeiling \/ SolveStart \/ SolvePass \/ SolveFinish
    \/ AnalyzeAttempt
    \/ HasUnique \/ CountStart \/ CountEnter \/ CountLoop \/ CountReturn

SpecLayers == InitLayers /\ [][NextLayers]_vars

\* JointSuperimposedGenerator(size=6, layers)._generate_single(min_clues,
\* max_clues): the ranges of main (12..20 for two layers, 12..18 for three)
\* a range that ends the reduction early and a range below what the
\* reduction of two layers reaches.
JointCalls ==
    {[size |-> 6, layers |-> 2, min_clues |-> 12, max_clues |-> 20],
     [size |-> 6, layers |-> 3, min_clues |-> 12, max_clues |-> 18],
     [size |-> 6, layers |-> 2, min_clues |-> 30, max_clues |-> 32],
     [size |-> 6, layers |-> 2, min_clues |-> 8, max_clues |-> 9]}

InitJoint ==
    /\ jcall \in JointCalls /\ rng \in Seeded(NumJointSeeds)
    /\ jpc = "solved" /\ solved_layers = <<>> /\ puzzle_layers = <<>>
    /\ positions = <<>> /\ jk = 0 /\ current_clues = 0 /\ backups = <<>>
    /\ jl = 0 /\ all_unique = FALSE /\ jret = None
    /\ call = [size |-> jcall.size]    \* base_generator = SudokuGenerator(size=size)
    /\ pc = "idle" /\ attempt = 0
    /\ min_clues = 0 /\ max_clues = 0 /\ stack = <<>> /\ fill_ok = FALSE
    /\ solution = None /\ puzzle = None /\ cells = <<>> /\ k = 0
    /\ backup = 0 /\ visit = "none" /\ ret = None
    /\ SolverIdle /\ CountIdle /\ TextIdle
    /\ GridIdle /\ SizeIdle /\ ValidIdle /\ EasyIdle /\ LayersIdle /\ HeapIdle

NextJoint ==
    \/ JointSolved \/ JointFilled \/ JointRemove \/ JointAsk \/ JointAnswer
    \/ JointDecide \/ JointReturn
    \/ FillCall \/ FillLoop \/ FillReturn
    \/ HasUnique \/ CountStart \/ CountEnter \/ CountLoop \/ CountReturn

SpecJoint == InitJoint /\ [][NextJoint]_vars

\* A caller's grid object and one call of a function on it.
InitHeap ==
    /\ \E hc \in HeapCalls :
          /\ hfn = hc[1]
          /\ heap = HeapOf(hc[2])
    /\ hchain = <<[id |-> 1, objs |-> 0, store |-> 0, kind |-> "arg",
                   value |-> 0, tried |-> {}]>>
    /\ hpc = "ready" /\ hscan = None /\ hverdict = None /\ hbefore = None
    /\ hceiling = 0 /\ hcount = 0
    /\ GenIdle /\ SolverIdle /\ CountIdle /\ TextIdle /\ GridIdle /\ SizeIdle /\ ValidIdle /\ EasyIdle /\ LayersIdle /\ JointIdle

NextHeap ==
    \/ HCall
    \/ HEnter
    \/ HCeiling
    \/ HSolveLoop
    \/ HSolveTested
    \/ HSolvePost
    \/ HSolveEnd
    \/ HSearch
    \/ HBranch
    \/ HUnwind
    \/ HValidCell
    \/ HValidCheck
    \/ HMutate

SpecHeap == InitHeap /\ [][NextHeap]_vars
\* ------------------------------------------------------------------------
\* Reference notions the properties are stated with; none of them is used by
\* the machines above
\* ------------------------------------------------------------------------

\* The cells of a grid, and the cells that see each other.
CellsOf(g) == Range(g.size) \X Range(g.size)

SameUnit(g, p, q) ==
    \/ p[1] = q[1]
    \/ p[2] = q[2]
    \/ /\ p[1] \div g.box_rows = q[1] \div g.box_rows
       /\ p[2] \div g.box_cols = q[2] \div g.box_cols

\* Two different cells that see each other hold the same value.
CluesClash(g) ==
    \E p \in CellsOf(g) : \E q \in CellsOf(g) :
        /\ p # q
        /\ g.grid[p[1]][p[2]] # 0
        /\ g.grid[p[1]][p[2]] = g.grid[q[1]][q[2]]
        /\ SameUnit(g, p, q)

\* Every row, every column and every box is a permutation of 1..size.
IsSolvedGrid(g) ==
    /\ \A r \in Range(g.size) : {g.grid[r][c] : c \in Range(g.size)} = 1 .. g.size
    /\ \A c \in Range(g.size) : {g.grid[r][c] : r \in Range(g.size)} = 1 .. g.size
    /\ \A br \in Range(g.size \div g.box_rows) : \A bc \in Range(g.size \div g.box_cols) :
          {g.grid[br * g.box_rows + i][bc * g.box_cols + j] :
              i \in Range(g.box_rows), j \in Range(g.box_cols)} = 1 .. g.size

\* Every clue of p is the value of s in the same cell.
CluesFrom(p, s) ==
    \A x \in CellsOf(p) : p.grid[x[1]][x[2]] = 0 \/ p.grid[x[1]][x[2]] = s.grid[x[1]][x[2]]

\* The values that can be written into the blank cell p: those that no cell
\* of its row, its column or its box holds.
FitSet(g, p) ==
    (1 .. g.size) \ ({g.grid[p[1]][c] : c \in Range(g.size)}
                      \cup {g.grid[r][p[2]] : r \in Range(g.size)}
                      \cup {g.grid[(p[1] \div g.box_rows) * g.box_rows + i]
                                  [(p[2] \div g.box_cols) * g.box_cols + j] :
                              i \in Range(g.box_rows), j \in Range(g.box_cols)})

\* min(cap, N), N the number of complete valid grids that agree with g on
\* every filled cell. A blank cell only one value fits takes that value in
\* every completion, so these cells are filled first, all at once; with no
\* such cell, the completions are those of g with a blank cell of the fewest
\* fitting values set to each of them in turn (CompletionsWith, for the
\* values vals[lo..hi]).
RECURSIVE NumCompletions(_, _)
RECURSIVE CompletionsWith(_, _, _, _, _, _)
NumCompletions(g, cap) ==
    LET blanks == {p \in CellsOf(g) : g.grid[p[1]][p[2]] = 0}
        forced == {p \in blanks : Cardinality(FitSet(g, p)) = 1}
    IN IF cap = 0 \/ CluesClash(g) THEN 0
       ELSE IF blanks = {} THEN 1
       ELSE IF \E p \in blanks : FitSet(g, p) = {} THEN 0
       ELSE IF forced # {}
            THEN NumCompletions(
                   [g EXCEPT !.grid = [r \in Range(g.size) |-> [c \in Range(g.size) |->
                       IF <<r, c>> \in forced
                       THEN CHOOSE v \in FitSet(g, <<r, c>>) : TRUE
                       ELSE g.grid[r][c]]]],
                   cap)
            ELSE LET p == CHOOSE x \in blanks : \A y \in blanks :
                              Cardinality(FitSet(g, x)) <= Cardinality(FitSet(g, y))
                     vals == SortedSeq(FitSet(g, p))
                 IN CompletionsWith(g, p, vals, 1, Len(vals), cap)

CompletionsWith(g, p, vals, lo, hi, cap) ==
    IF lo > hi \/ cap = 0 THEN 0
    ELSE IF lo = hi
         THEN NumCompletions([g EXCEPT !.grid[p[1]][p[2]] = vals[lo]], cap)
         ELSE LET first == CompletionsWith(g, p, vals, lo, Mid(lo, hi), cap)
              IN first + CompletionsWith(g, p, vals, Mid(lo, hi) + 1, hi, cap - first)

\* ------------------------------------------------------------------------
\* Properties
\* ------------------------------------------------------------------------

\* C1: every grid generate_solved_grid returns, for size 6 and size 9, is
\* completely filled, and each of its rows, columns and boxes is a
\* permutation of 1..size, whatever the shuffles gave.
C1_FillReturnsSolvedGrid ==
    pc = "create" =>
        /\ \A p \in CellsOf(solution) : solution.grid[p[1]][p[2]] \in 1 .. solution.size
        /\ IsSolvedGrid(solution)

\* The fill has returned a 9x9 grid after backtracking: _fill_grid was
\* entered for more cells than the grid has.
C1_Witness ==
    /\ pc = "create"
    /\ call.size = 9
    /\ rng.calls > 81

\* C2: in _create_puzzle, after every visit of a cell, whether the removal was
\* kept or undone, the puzzle has exactly one solution and each of its clues
\* is the value of the solved grid in the same cell; and the solution of a
\* returned GeneratorResult is the one solution of its puzzle.
C2_VisitKeepsUniqueSolution ==
    /\ (pc = "scan" /\ visit \in {"kept", "reverted"}) =>
          /\ NumCompletions(puzzle, 2) = 1
          /\ CluesFrom(puzzle, solution)
    /\ (pc = "done" /\ ret # None) =>
          /\ NumCompletions(ret.puzzle, 2) = 1
          /\ CluesFrom(ret.puzzle, ret.solution)
          /\ IsSolvedGrid(ret.solution)

\* A visit has just been undone because the puzzle without the cell had a
\* second solution, after other cells were removed for good.
C2_Witness ==
    /\ pc = "scan"
    /\ visit = "reverted"
    /\ unique = Some(FALSE)
    /\ count_clues(puzzle) < call.size * call.size - 10

UpToPairs == {"naked_singles", "hidden_singles", "naked_pairs", "hidden_pairs"}

\* C4, as claimed: a result of generate_puzzle(1, 40, 50) on a 9x9 grid is a
\* puzzle the classifier solves and its techniques_used holds no technique
\* other than naked_singles and hidden_singles.
C4_SinglesAlone ==
    (/\ pc = "done"
     /\ ret # None
     /\ call.size = 9
     /\ call.target_level = 1
     /\ call.min_clues = Some(40)
     /\ call.max_clues = Some(50)) =>
        /\ analysis.solved
        /\ ret.techniques_used \subseteq {"naked_singles", "hidden_singles"}

\* C4, amended: a result of generate_puzzle(1, 40, 50) on a 9x9 grid is a
\* puzzle the classifier solves with techniques of level 1 or 2 alone: its
\* technique_level is 1 or 2 and its techniques_used holds no technique other
\* than naked_singles, hidden_singles, naked_pairs and hidden_pairs.
C4_SinglesAndPairsAlone ==
    (/\ pc = "done"
     /\ ret # None
     /\ call.size = 9
     /\ call.target_level = 1
     /\ call.min_clues = Some(40)
     /\ call.max_clues = Some(50)) =>
        /\ analysis.solved
        /\ ret.technique_level \in {1, 2}
        /\ ret.techniques_used \subseteq UpToPairs

\* The 9x9 call for level 1 with 40 to 50 clues has returned a puzzle whose
\* classification used naked_pairs.
C4_Witness ==
    /\ pc = "done"
    /\ ret # None
    /\ call.size = 9
    /\ call.target_level = 1
    /\ call.min_clues = Some(40)
    /\ call.max_clues = Some(50)
    /\ "naked_pairs" \in ret.techniques_used
    /\ ret.clue_count = 40

\* What a technique returned agrees with the solved grid s: each placement
\* is the value of s in its cell, and no elimination is.
SoundFor(tr, s) ==
    /\ \A i \in 1 .. Len(tr.placements) :
          s.grid[tr.placements[i][1]][tr.placements[i][2]] = tr.placements[i][3]
    /\ \A e \in tr.eliminations : s.grid[e[1]][e[2]] # e[3]

\* C5: technique soundness. On every work grid of the solver, a grid cut
\* from a complete valid solution whose candidates come from set_value and
\* from the eliminations applied before, each of the 12 techniques returns
\* no placement that differs from the solution and no elimination of the
\* solution's value.
C5_TechniquesAreSound ==
    (result # None /\ CluesFrom(result.grid, given.solution)) =>
        \A i \in 1 .. Len(TECHNIQUES) :
            SoundFor(technique_fn(TECHNIQUES[i][1], result.grid), given.solution)

\* A work grid reached after naked_pairs eliminations on which naked_singles
\* returns a placement and a technique of level 3 or more an elimination.
C5_Witness ==
    /\ result # None
    /\ spc = "loop"
    /\ "naked_pairs" \in result.techniques_used
    /\ naked_singles(result.grid).placements # <<>>
    /\ \E i \in 1 .. Len(TECHNIQUES) :
          /\ TECHNIQUES[i][2] >= 3
          /\ technique_fn(TECHNIQUES[i][1], result.grid).eliminations # {}

\* C6: has_unique_solution(g) is count_solutions(g, 2) == 1, and during
\* count_solutions(g, limit) the counter never exceeds limit: once it has
\* reached limit, no solution is counted and no call of solve_count goes
\* beyond its first test.
C6_UniqueIsCountUpToTwo ==
    /\ []((cpc \in {"call", "loop", "return", "done"}) => count <= counted.limit)
    /\ []((cpc = "done" /\ counted.caller = "has_unique_solution") =>
            /\ counted.limit = 2
            /\ counted.grid = asked
            /\ unique = Some(count = 1)
            /\ unique = Some(count_solutions(asked, 2) = 1))
    /\ [][(cpc \in {"call", "loop", "return"} /\ count >= counted.limit) =>
            (count' = count /\ Len(frames') <= Len(frames))]_vars

\* has_unique_solution has returned False after count_solutions found two
\* solutions and left values of the open calls untried.
C6_Witness ==
    /\ cpc = "done"
    /\ counted.caller = "has_unique_solution"
    /\ count = 2
    /\ unique = Some(FALSE)

\* C7: count_solutions(g, limit) returns min(limit, N), N the number of
\* complete valid grids that agree with g on every filled cell; and
\* has_unique_solution(g) is true exactly when N = 1.
C7_CountIsMinOfLimitAndCompletions ==
    cpc = "done" =>
        /\ LET n == NumCompletions(counted.grid, counted.limit + 1)
           IN count = IF n < counted.limit THEN n ELSE counted.limit
        /\ counted.caller = "has_unique_solution" =>
              unique = Some(NumCompletions(asked, 2) = 1)

\* count_solutions with limit 3 has returned 2 for a grid with exactly two
\* completions.
C7_Witness ==
    /\ cpc = "done"
    /\ counted.limit = 3
    /\ count = 2
    /\ NumCompletions(counted.grid, 4) = 2

\* C8: when analyze_difficulty solves an incomplete puzzle without
\* backtracking, the max_technique_level it reports is the least k in 1..5
\* such that SudokuSolver(k, False).solve, run on the puzzle as given, solves
\* it.
C8_LevelIsLeastSolvingCeiling ==
    (/\ spc = "analyzed"
     /\ analysis.solved
     /\ ~analysis.used_backtracking
     /\ ~is_complete(given.puzzle)) =>
        LET solving_ceilings == {c \in 1 .. 5 : solve(c, FALSE, given.puzzle).solved}
        IN /\ solving_ceilings # {}
           /\ analysis.max_technique_level \in solving_ceilings
           /\ \A c \in solving_ceilings : analysis.max_technique_level <= c

\* analyze_difficulty has solved a puzzle at the fourth ceiling, after three
\* ceilings that left their progress in the work grid.
C8_Witness ==
    /\ spc = "analyzed"
    /\ analysis.solved
    /\ ~analysis.used_backtracking
    /\ max_lvl = 4
    /\ work_grid # given.puzzle

\* C9: classifier monotonicity. When solve at ceiling k in 1..4, without
\* backtracking, does not solve a grid, solve at ceiling k + 1 on the same
\* grid reports every technique ceiling k reported and no lower
\* max_technique_level.
C9_NextCeilingReportsNoLess ==
    (/\ spc = "done"
     /\ ~solving.allow_backtracking
     /\ solving.max_level <= 4
     /\ ~result.solved) =>
        LET next == solve(solving.max_level + 1, FALSE, solving.grid)
        IN /\ result.techniques_used \subseteq next.techniques_used
           /\ result.max_technique_level <= next.max_technique_level

\* solve at ceiling 2 has stopped short after naked_pairs eliminations, and
\* ceiling 3 gets further.
C9_Witness ==
    /\ spc = "done"
    /\ ~solving.allow_backtracking
    /\ solving.max_level = 2
    /\ ~result.solved
    /\ result.max_technique_level = 2
    /\ solve(3, FALSE, solving.grid).max_technique_level = 3

\* The digit character of a cell value.
DigitOf(v) ==
    CASE v = 0 -> "0" [] v = 1 -> "1" [] v = 2 -> "2" [] v = 3 -> "3" [] v = 4 -> "4"
      [] v = 5 -> "5" [] v = 6 -> "6" [] v = 7 -> "7" [] v = 8 -> "8" [] v = 9 -> "9"

\* C10: serialization round trip. For a grid g of size 6 or 9 with values in
\* 0..size, to_string(g) is the row-major string of size * size digit
\* characters, '0' for a blank, and from_string(to_string(g), size, ...) has
\* the value of g in every cell.
C10_TextRoundTrip ==
    tpc = "done" =>
        /\ Len(text) = original.size * original.size
        /\ \A p \in CellsOf(original) :
              text[p[1] * original.size + p[2] + 1] = DigitOf(original.grid[p[1]][p[2]])
        /\ parsed # IndexError
        /\ parsed.size = original.size
        /\ \A p \in CellsOf(original) :
              parsed.grid[p[1]][p[2]] = original.grid[p[1]][p[2]]

\* A 9x9 grid with blanks, with a 9 and with a row that differs from the
\* column of the same index has gone through to_string and from_string.
C10_Witness ==
    /\ tpc = "done"
    /\ original.size = 9
    /\ \E p \in CellsOf(original) : original.grid[p[1]][p[2]] = 0
    /\ \E p \in CellsOf(original) : original.grid[p[1]][p[2]] = 9
    /\ \E p \in CellsOf(original) : original.grid[p[1]][p[2]] # original.grid[p[2]][p[1]]

\* ------------------------------------------------------------------------
\* The candidate sets of a grid
\* ------------------------------------------------------------------------

\* The values present among the row, column and box peers of (row, col).
PeerValues(g, row, col) ==
    {g.grid[p[1]][p[2]] : p \in get_peers(g, row, col)} \ {0}

FilledHaveNone(g) ==
    \A p \in CellsOf(g) : g.grid[p[1]][p[2]] # 0 => g.candidates[p[1]][p[2]] = {}

EmptyWithinRange(g) ==
    \A p \in CellsOf(g) : g.grid[p[1]][p[2]] = 0 => g.candidates[p[1]][p[2]] \subseteq 1 .. g.size

EmptyWithinPeers(g) ==
    \A p \in CellsOf(g) :
        g.grid[p[1]][p[2]] = 0 =>
            g.candidates[p[1]][p[2]] \subseteq (1 .. g.size) \ PeerValues(g, p[1], p[2])

EmptyEqualPeers(g) ==
    \A p \in CellsOf(g) :
        g.grid[p[1]][p[2]] = 0 =>
            g.candidates[p[1]][p[2]] = (1 .. g.size) \ PeerValues(g, p[1], p[2])

\* C11 as stated: in every state of a grid, the caller's or the one the
\* generator fills, a filled cell has no candidates and an empty cell has
\* exactly the values 1..size that none of its peers holds.
C11_CandidatesArePeerComplement ==
    /\ board # None => FilledHaveNone(board) /\ EmptyEqualPeers(board)
    /\ solution # None => FilledHaveNone(solution) /\ EmptyEqualPeers(solution)

\* C11 amended: a filled cell has no candidates and an empty cell's candidates
\* lie in 1..size, and outside the fill they hold no value of a peer; they are
\* exactly 1..size minus the peers' values on a new or given grid and after
\* from_string, set_value(.., 0) and a clue removal, and copy and set_value of
\* a positive value into an empty cell keep them so.
C11_CandidatesWithinPeers ==
    /\ [](board # None => FilledHaveNone(board) /\ EmptyWithinPeers(board))
    /\ [](solution # None => FilledHaveNone(solution) /\ EmptyWithinRange(solution))
    /\ [](gop \in {"new", "from_string", "set_value_0", "remove_clue"} => EmptyEqualPeers(board))
    /\ [][gop' \in {"copy", "set_value_on_empty"} /\ EmptyEqualPeers(board)
            => EmptyEqualPeers(board')]_vars

\* A cell was cleared with set_value(.., 0) as the last of several calls, other
\* cells are filled, and the candidates are the peers' complement.
C11_Witness ==
    /\ gop = "set_value_0" /\ gn >= 2
    /\ \E p \in CellsOf(board) : board.grid[p[1]][p[2]] # 0 /\ ~(<<p[1], p[2]>> \in ApiCells)
    /\ \E p \in ApiCells : board.grid[p[1]][p[2]] # 0
    /\ EmptyEqualPeers(board)

\* ------------------------------------------------------------------------
\* Unsupported sizes
\* ------------------------------------------------------------------------

Raised(v) == v \in {ValueError, IndexError}

\* C12: a size other than 6 and 9 is rejected with an error by create_grid, by
\* from_string and by the construction of a SudokuGenerator, and none of them
\* gives it a box geometry.
C12_UnsupportedSizeRejected ==
    epc = "done" /\ ~(size_arg \in {6, 9}) => Raised(made)

\* What the three entry points do with an unsupported size: create_grid
\* raises ValueError, from_string fills a 9x9 grid and the generator takes
\* 3x3 boxes.
C12_UnsupportedSizeOutcome ==
    epc = "done" /\ ~(size_arg \in {6, 9}) =>
        CASE entry = "create_grid" -> made = ValueError
          [] entry = "from_string" ->
                made = FromStringLoop(Grid9x9, text_arg, size_arg, 0, Len(text_arg) - 1)
                /\ made.size = 9 /\ made.box_rows = 3 /\ made.box_cols = 3
          [] entry = "SudokuGenerator" ->
                made = [size |-> size_arg, box_rows |-> 3, box_cols |-> 3]

C12_Witness ==
    epc = "done" /\ entry = "from_string" /\ size_arg = 4 /\ text_arg = <<"5">>
        /\ made.size = 9 /\ made.grid[0][0] = 5

\* ------------------------------------------------------------------------
\* validate_puzzle
\* ------------------------------------------------------------------------

WellShaped(g) ==
    /\ DOMAIN g.grid = Range(g.size)
    /\ \A r \in Range(g.size) : DOMAIN g.grid[r] = Range(g.size)

\* The number of the three validators that fail on a grid they can scan.
FailedChecks(g) ==
    (IF validate_grid_structure(g).valid THEN 0 ELSE 1)
        + (IF validate_no_duplicates(g).valid THEN 0 ELSE 1)
        + (IF validate_values_in_range(g).valid THEN 0 ELSE 1)

\* C13: validate_puzzle raises on no grid object, with rows missing or a row
\* of the wrong length too: it returns (ok, errors) with one message for each
\* failed check and ok true exactly when errors is empty.
C13_ValidateNeverRaises ==
    vpc = "done" =>
        /\ verdict # IndexError
        /\ verdict.ok = (verdict.errors = <<>>)
        /\ ~validate_grid_structure(vgrid).valid => Len(verdict.errors) >= 1

\* On a grid object with size rows of size cells each, validate_puzzle does
\* not raise and returns one message for each validator that fails.
C13_ValidateWellShaped ==
    vpc = "done" /\ WellShaped(vgrid) =>
        /\ verdict # IndexError
        /\ verdict.ok = (verdict.errors = <<>>)
        /\ Len(verdict.errors) = FailedChecks(vgrid)

\* validate_puzzle has raised IndexError on a grid with a row missing, after
\* validate_grid_structure reported the wrong number of rows.
C13_Witness ==
    /\ vpc = "done" /\ verdict = IndexError
    /\ ListLen(vgrid.grid) = vgrid.size - 1
    /\ Len(errors) = 1

\* ------------------------------------------------------------------------
\* The attempts of generate_puzzle
\* ------------------------------------------------------------------------

\* The test generate_puzzle makes on an attempt's puzzle.
AttemptPasses ==
    /\ analysis.solved
    /\ call.target_level <= analysis.max_technique_level
    /\ analysis.max_technique_level <= call.target_level + 1
    /\ min_clues <= count_clues(puzzle)
    /\ count_clues(puzzle) <= max_clues

\* C14: generate_puzzle returns; it makes at most max_attempts attempts, each
\* with one fill and one scan; the first attempt that passes the level and clue
\* tests is returned, and None is returned when max_attempts attempts (none,
\* for max_attempts = 0) were rejected.
C14_GenerateTerminates ==
    /\ <>(pc = "done")
    /\ [](attempt <= call.max_attempts)
    /\ [](pc = "done" => IF ret = None THEN attempt = call.max_attempts
                                       ELSE attempt < call.max_attempts)
    /\ [][/\ attempt' # attempt => pc = "accept" /\ attempt' = attempt + 1
          /\ pc = "attempt" /\ pc' # pc =>
                IF attempt < call.max_attempts THEN pc' = "fill_call" ELSE pc' = "done"
          /\ pc' = "fill_call" /\ get_empty_cells(solution') = AllCells(call.size)
                => pc = "attempt"
          /\ pc' = "create" /\ pc # pc' => pc = "fill_ret"
          /\ pc = "create" /\ pc' # pc => pc' = "scan"
          /\ pc' = "attempt" /\ pc # pc' => pc \in {"start", "accept"}
          /\ pc = "accept" /\ pc' # pc =>
                IF AttemptPasses THEN pc' = "done" /\ ret' # None
                ELSE pc' = "attempt" /\ attempt' = attempt + 1]_vars

\* Two attempts were made and rejected, and None was returned.
C14_Witness ==
    /\ pc = "done" /\ ret = None
    /\ call.max_attempts = 2 /\ attempt = 2
    /\ solution # None

\* ------------------------------------------------------------------------
\* The order of the techniques in solve
\* ------------------------------------------------------------------------

\* The place of a technique in the registry.
RegistryIndex(name) == CHOOSE i \in 1 .. Len(TECHNIQUES) : TECHNIQUES[i][1] = name

\* The steps a pass has added to the trace.
NewSteps == SubSeq(result'.steps, Len(result.steps) + 1, Len(result'.steps))

\* The registry entry at place j, called on the grid g, changes it.
Applicable(j, g) ==
    LET tr == technique_fn(TECHNIQUES[j][1], g)
    IN ResultTruthy(tr) /\ ApplyResult(SolveResult(FALSE, g), tr).changed

\* C18: the registry is in ascending level order; a pass of solve that changes
\* the grid applies one technique, of a level within the ceiling, and no entry
\* before it within the ceiling has anything applicable on the grid the pass
\* started from (so after a change the scan is back at naked_singles); no step
\* of the trace has a level above max_level.
C18_FirstApplicableTechnique ==
    /\ [](\A i \in 1 .. (Len(TECHNIQUES) - 1) : TECHNIQUES[i][2] <= TECHNIQUES[i + 1][2])
    /\ [](spc \in {"loop", "finish"} =>
            \A i \in 1 .. Len(result.steps) : result.steps[i][2] <= solving.max_level)
    /\ [][spc = "loop" /\ spc' = "loop" /\ result' # result =>
            /\ changed'
            /\ NewSteps # <<>>
            /\ LET at == RegistryIndex(NewSteps[1][1])
               IN /\ \A i \in 1 .. Len(NewSteps) :
                        NewSteps[i][1] = TECHNIQUES[at][1] /\ NewSteps[i][2] = TECHNIQUES[at][2]
                  /\ TECHNIQUES[at][2] <= solving.max_level
                  /\ \A j \in 1 .. (at - 1) :
                        TECHNIQUES[j][2] <= solving.max_level => ~Applicable(j, result.grid)]_vars

\* Every entry before the applied one returned an empty result.
C18_EarlierReturnedNothing ==
    [][spc = "loop" /\ spc' = "loop" /\ result' # result =>
            \A j \in 1 .. (RegistryIndex(NewSteps[1][1]) - 1) :
                TECHNIQUES[j][2] <= solving.max_level =>
                    ~ResultTruthy(technique_fn(TECHNIQUES[j][1], result.grid))]_vars

\* A pass at ceiling 5 has applied y_wing after an earlier pass applied
\* naked_singles: the eight entries before y_wing had nothing applicable.
C18_Witness ==
    /\ spc = "loop" /\ solving.max_level = 5
    /\ Len(result.steps) >= 2
    /\ result.steps[Len(result.steps)][1] = "y_wing"
    /\ \E i \in 1 .. Len(result.steps) : result.steps[i][1] = "naked_singles"

\* ------------------------------------------------------------------------
\* What solve writes into the work grid
\* ------------------------------------------------------------------------

\* The work grid after the first n of the steps a pass has added, written
\* onto the grid g the pass started from.
RECURSIVE StepsApplied(_, _, _, _)
StepsApplied(g, steps, lo, hi) ==
    IF lo > hi \/ ~Strict(g) THEN g
    ELSE IF lo = hi
         THEN LET d == steps[lo][3]
              IN IF d[1] = "=" THEN set_value(g, d[2], d[3], d[4])
                 ELSE remove_candidate(g, d[2], d[3], d[4])
         ELSE StepsApplied(StepsApplied(g, steps, lo, Mid(lo, hi)), steps, Mid(lo, hi) + 1, hi)

GridAfterSteps(g, steps, n) == StepsApplied(g, steps, 1, n)

\* Step n of a pass is written onto an empty cell.
OnEmptyCell(g, steps, n) ==
    steps[n][3][1] = "=" =>
        GridAfterSteps(g, steps, n - 1).grid[steps[n][3][2]][steps[n][3][3]] = 0

\* Step n of a pass writes or removes a value that is a candidate of its cell.
OfCandidate(g, steps, n) ==
    steps[n][3][4] \in GridAfterSteps(g, steps, n - 1).candidates[steps[n][3][2]][steps[n][3][3]]

\* C19: solve writes a placement only onto a cell that is empty and has the
\* value as a candidate at that moment, and removes only a value that is a
\* candidate at that moment; and a work grid made from an input without
\* duplicates never holds a value twice in a row, column or box.
C19_WritesAreValidated ==
    /\ [][spc = "loop" /\ spc' = "loop" /\ result' # result =>
            \A n \in 1 .. Len(NewSteps) :
                OnEmptyCell(result.grid, NewSteps, n) /\ OfCandidate(result.grid, NewSteps, n)]_vars
    /\ [](spc \in {"loop", "finish"} /\ ~CluesClash(solving.grid) => ~CluesClash(result.grid))

\* What solve checks: a placement goes onto a cell that is empty at that
\* moment, and a removal takes a value that is a candidate at that moment.
C19_WritesOnEmptyCells ==
    [][spc = "loop" /\ spc' = "loop" /\ result' # result =>
            \A n \in 1 .. Len(NewSteps) :
                /\ OnEmptyCell(result.grid, NewSteps, n)
                /\ NewSteps[n][3][1] = "remove" => OfCandidate(result.grid, NewSteps, n)
                /\ result'.grid = GridAfterSteps(result.grid, NewSteps, Len(NewSteps))]_vars

\* The work grid of an input with a solution holds no value twice.
C19_SolvableStaysValid ==
    spc \in {"loop", "finish"} /\ CluesFrom(solving.grid, given.solution) => ~CluesClash(result.grid)

\* A pass has written a value that was no candidate any more, and the work
\* grid of an input without duplicates holds a value twice.
C19_Witness ==
    /\ spc = "loop"
    /\ ~CluesClash(solving.grid)
    /\ CluesClash(result.grid)

\* ------------------------------------------------------------------------
\* The end of the loop of solve
\* ------------------------------------------------------------------------

\* The sum of the natural numbers f[x] over x in S.
SumOver(f, S) == Cardinality(UNION {{<<x, i>> : i \in 1 .. f[x]} : x \in S})

\* The number of empty cells plus the number of candidates of all cells.
Measure(g) ==
    Cardinality({p \in CellsOf(g) : g.grid[p[1]][p[2]] = 0})
        + SumOver([p \in CellsOf(g) |-> Cardinality(g.candidates[p[1]][p[2]])], CellsOf(g))

\* C20: solve leaves its loop on every grid; it leaves it exactly when the
\* grid is complete or the last pass changed nothing; a pass reports a change
\* exactly when it changed the grid, and such a pass lowers the number of
\* empty cells plus the number of candidates.
C20_SolveLoopTerminates ==
    /\ [](spc = "loop" => <>(spc = "finish"))
    /\ [][spc = "loop" =>
            /\ (spc' = "finish") = (is_complete(result.grid) \/ ~changed)
            /\ spc' = "loop" =>
                  /\ changed' = (result'.grid # result.grid)
                  /\ changed' = (NewSteps # <<>>)
                  /\ changed' => Measure(result'.grid) < Measure(result.grid)]_vars

\* The loop has ended on a pass without a change, after passes with changes,
\* on a grid that is not complete.
C20_Witness ==
    /\ spc = "finish"
    /\ ~solving.allow_backtracking
    /\ ~changed
    /\ ~is_complete(result.grid)
    /\ Len(result.steps) >= 3

\* ------------------------------------------------------------------------
\* The stand-alone 6x6 generator
\* ------------------------------------------------------------------------

\* The number of completions of a list of rows, up to cap, counted over the
\* grid with the same values.
RowsCompletions(rows, cap) ==
    NumCompletions([Grid6x6 EXCEPT !.grid = rows], cap)

\* C17: generate_puzzle of Sudoku6x6Generator returns a clue count within
\* 18..20 that is the number of characters other than '0' of the returned
\* puzzle string of 36 characters, whatever the order of the cells and
\* whichever removals are undone.
C17_EasyClueCount ==
    s6pc = "done" =>
        /\ s6ret.clue_count \in 18 .. 20
        /\ Len(s6ret.puzzle_str) = 36
        /\ s6ret.clue_count = Cardinality({i \in 1 .. 36 : s6ret.puzzle_str[i] # "0"})
        /\ s6ret.clue_count = s6target
        /\ \A i \in 1 .. 36 :
              s6ret.puzzle_str[i] = DigitOf(s6puzzle[(i - 1) \div 6][(i - 1) % 6])

\* A puzzle with 18 clues was returned after removals were undone.
C17_Witness ==
    /\ s6pc = "done"
    /\ s6ret.clue_count = 18
    /\ s6k > 19
    /\ RowsCompletions(s6puzzle, 2) = 1

\* ------------------------------------------------------------------------
\* Superimposed puzzles
\* ------------------------------------------------------------------------

\* One result of a returned list: the puzzle takes its clues from the
\* result's own solution, a full valid grid, and has no other completion; the
\* level is target_level or one above; clue_count is the number of clues.
LayerSound(res, target_level) ==
    /\ is_complete(res.solution) /\ is_valid(res.solution)
    /\ CluesFrom(res.puzzle, res.solution)
    /\ NumCompletions(res.puzzle, 2) = 1
    /\ target_level <= res.technique_level
    /\ res.technique_level <= target_level + 1
    /\ res.clue_count = count_clues(res.puzzle)

\* A returned list: one result per layer, all with the clues at the positions
\* of the first, each sound.
ListSound(list, call_made) ==
    /\ Len(list) = call_made.layers
    /\ \A i \in 1 .. Len(list) :
          /\ CluePositions(list[i].puzzle) = CluePositions(list[1].puzzle)
          /\ list[i].clue_count = list[1].clue_count
          /\ LayerSound(list[i], call_made.target_level)

\* A layer that was not produced: the loop over the layers is left with
\* success False, nothing is returned and the next attempt follows, which
\* starts its list anew from its own first puzzle.
LayerDiscarded ==
    /\ (lpc = "layer_ret" /\ layer_result = None)
          => (lpc' = "check" /\ ~success' /\ sret' = sret)
    /\ (lpc = "check" /\ ~success)
          => (lpc' = "attempt" /\ sattempt' = sattempt + 1 /\ sret' = sret)
    /\ (lpc = "first" /\ lpc' = "layer") => (results' = <<ret>> /\ success')

\* C15: a list returned by SuperimposedGenerator.generate has exactly
\* `layers` results with the clues at the same positions (so equal clue
\* counts); each puzzle has exactly one solution, its own solution grid, and
\* a level of target_level or target_level + 1; an attempt in which a layer
\* was not produced returns nothing.
C15_SuperimposedLayers ==
    /\ []((lpc = "done" /\ sret # None) => ListSound(sret.some, scall))
    /\ [][LayerDiscarded]_vars

\* A list of layers was returned after an attempt was discarded for a layer
\* that fifty tries did not produce.
C15_Witness ==
    /\ lpc = "done" /\ sret # None
    /\ sattempt >= 1
    /\ Len(sret.some) = scall.layers

\* A list of three layers was returned.
C15_ThreeLayers ==
    lpc = "done" /\ sret # None /\ scall.layers = 3

\* The cells of a grid that are 0.
BlankPositions(g) == {p \in Range(g.size) \X Range(g.size) : g.grid[p[1]][p[2]] = 0}

\* Between two steps of the joint reduction: the layers are blank at the same
\* positions, every layer has exactly one completion and takes its clues from
\* its solved grid, current_clues is the clue count of every layer, and the
\* positions visited so far are the only ones that can be blank.
JointSound ==
    /\ Len(puzzle_layers) = jcall.layers
    /\ \A i \in 1 .. Len(puzzle_layers) :
          /\ BlankPositions(puzzle_layers[i]) = BlankPositions(puzzle_layers[1])
          /\ NumCompletions(puzzle_layers[i], 2) = 1
          /\ CluesFrom(puzzle_layers[i], solved_layers[i])
          /\ count_clues(puzzle_layers[i]) = current_clues
          /\ BlankPositions(puzzle_layers[i]) \subseteq {positions[n] : n \in 1 .. (jk - 1)}

\* One step of the joint reduction: the cell is set to 0 in every layer at
\* once; the removal is kept only when every layer has one completion, and
\* otherwise every layer is as it was before the step.
JointStep ==
    /\ (jpc = "reduce" /\ jpc' = "unique") =>
          \A i \in 1 .. Len(puzzle_layers) :
             /\ get_value(puzzle_layers'[i], positions[jk][1], positions[jk][2]) = 0
             /\ backups'[i] = get_value(puzzle_layers[i], positions[jk][1], positions[jk][2])
    /\ (jpc = "decide" /\ current_clues' < current_clues) =>
          \A i \in 1 .. Len(puzzle_layers) : NumCompletions(puzzle_layers[i], 2) = 1
    /\ (jpc = "decide" /\ current_clues' = current_clues) =>
          \A i \in 1 .. Len(puzzle_layers) :
             /\ get_value(puzzle_layers'[i], positions[jk][1], positions[jk][2]) = backups[i]
             /\ puzzle_layers'[i].grid =
                   [puzzle_layers[i].grid EXCEPT ![positions[jk][1]][positions[jk][2]] = backups[i]]

\* C16: in _generate_single every step clears the same cell in all layers
\* and keeps the removal only if every layer still has one solution,
\* otherwise puts the value back in every layer; after every step the layers
\* are blank at the same positions, each has exactly one solution and agrees
\* with its solved grid on its clues, and current_clues is the clue count of
\* every layer.
C16_JointReduction ==
    /\ [](jpc \in {"reduce", "final", "done"} => JointSound)
    /\ [][JointStep]_vars

\* A result of three layers was returned after removals were kept and
\* removals were reverted.
C16_Witness ==
    /\ jpc = "done" /\ jret # None
    /\ jcall.layers = 3
    /\ current_clues < 36
    /\ jk - 1 > 36 - current_clues

\* The reduction was left at min_clues before the last position.
C16_EarlyBreak ==
    jpc = "final" /\ jk <= Len(positions) /\ current_clues = jcall.min_clues

\* _generate_single returned None after the last position.
C16_NoResult ==
    jpc = "done" /\ jret = None /\ jk > Len(positions)

\* ------------------------------------------------------------------------
\* The trace of a SolveResult
\* ------------------------------------------------------------------------

\* The steps lo..hi of a trace written onto the grid g one after another; None
\* as soon as a placement finds its cell filled or a removal finds its value
\* no candidate of the cell (a step that is no application).
RECURSIVE ReplayApplied(_, _, _, _)
ReplayApplied(g, steps, lo, hi) ==
    IF g = None \/ lo > hi THEN g
    ELSE IF lo = hi
         THEN LET d == steps[lo][3]
              IN IF d[1] = "="
                 THEN (IF g.grid[d[2]][d[3]] = 0 THEN set_value(g, d[2], d[3], d[4]) ELSE None)
                 ELSE IF d[1] = "remove"
                      THEN (IF d[4] \in g.candidates[d[2]][d[3]]
                            THEN remove_candidate(g, d[2], d[3], d[4]) ELSE None)
                      ELSE None
         ELSE LET first == ReplayApplied(g, steps, lo, Mid(lo, hi))
              IN IF Strict(first) THEN ReplayApplied(first, steps, Mid(lo, hi) + 1, hi)
                 ELSE None

\* The greatest level of the steps of a trace, 0 for the empty trace.
MaxStepLevel(steps) ==
    IF steps = <<>> THEN 0
    ELSE CHOOSE l \in {steps[i][2] : i \in 1 .. Len(steps)} :
            \A i \in 1 .. Len(steps) : steps[i][2] <= l

\* The steps of a result that techniques have written: all of them, or all
\* but the last when backtracking ended the call.
TechniqueSteps(res) ==
    IF res.used_backtracking THEN SubSeq(res.steps, 1, Len(res.steps) - 1) ELSE res.steps

\* C21: in the SolveResult solve returns, the steps written by techniques are
\* the applications one by one (each placement on a cell empty at its turn,
\* each removal of a value present at its turn, and together they turn the
\* input grid into the grid techniques left); techniques_used is the set of
\* the names in steps; max_technique_level is the greatest level in steps, 0
\* without steps; without backtracking no step is above the solver's max_level.
C21_TraceMatchesApplications ==
    spc \in {"done", "attempt"} /\ result # None =>
        /\ result.techniques_used = {result.steps[i][1] : i \in 1 .. Len(result.steps)}
        /\ result.max_technique_level = MaxStepLevel(result.steps)
        /\ ~solving.allow_backtracking =>
              \A i \in 1 .. Len(result.steps) : result.steps[i][2] <= solving.max_level
        /\ LET steps == TechniqueSteps(result)
               replayed == ReplayApplied(copy(solving.grid), steps, 1, Len(steps))
           IN /\ replayed # None
              /\ ~result.used_backtracking => replayed = result.grid
              /\ result.used_backtracking =>
                    /\ result.steps[Len(result.steps)] = <<"backtracking", 6, <<"Trial and error">>>>
                    /\ CluesFrom(replayed, result.grid)
                    /\ \A i \in 1 .. Len(steps) : steps[i][1] # "backtracking"

\* solve has returned a trace with placements and removals of more than one
\* technique.
C21_Witness ==
    /\ spc = "done" /\ result # None
    /\ Cardinality(result.techniques_used) >= 2
    /\ \E i \in 1 .. Len(result.steps) : result.steps[i][3][1] = "="
    /\ \E i \in 1 .. Len(result.steps) : result.steps[i][3][1] = "remove"

\* solve has returned a trace that backtracking ended after steps of techniques.
C21_BacktrackingTrace ==
    /\ spc = "done" /\ result # None
    /\ result.used_backtracking
    /\ Len(result.steps) >= 2

\* ------------------------------------------------------------------------
\* The backtracking fallback of solve
\* ------------------------------------------------------------------------

\* p comes before q in row-major order.
ScannedBefore(p, q) == p[1] < q[1] \/ (p[1] = q[1] /\ p[2] < q[2])

\* The empty cell of g no empty cell has fewer candidates than, and that
\* comes first in row-major order among those of as few.
BranchCell(g) ==
    LET empty == {p \in CellsOf(g) : g.grid[p[1]][p[2]] = 0}
    IN CHOOSE p \in empty : \A q \in empty \ {p} :
          \/ Cardinality(g.candidates[p[1]][p[2]]) < Cardinality(g.candidates[q[1]][q[2]])
          \/ /\ Cardinality(g.candidates[p[1]][p[2]]) = Cardinality(g.candidates[q[1]][q[2]])
             /\ ScannedBefore(p, q)

\* The search from g with the value v in its branch cell finds a completion.
BranchSucceeds(g, v) ==
    LET test_grid == set_value(g, BranchCell(g)[1], BranchCell(g)[2], v)
    IN is_valid(test_grid) /\ _backtrack_solve(test_grid) # None

\* The end of a call of solve whose techniques stalled on the grid g, with
\* backtracking: out is the result returned.
FallbackOf(g, before, out) ==
    /\ out.solved <=> NumCompletions(g, 1) = 1
    /\ ~out.solved => out = before
    /\ out.solved =>
          /\ IsSolvedGrid(out.grid)
          /\ CluesFrom(g, out.grid)
          /\ CluesFrom(solving.grid, out.grid)
          /\ out.used_backtracking
          /\ "backtracking" \in out.techniques_used
          /\ out.max_technique_level = 6
          /\ out.steps = Append(before.steps, <<"backtracking", 6, <<"Trial and error">>>>)
          /\ LET cell == BranchCell(g)
                 v == out.grid.grid[cell[1]][cell[2]]
             IN /\ v \in g.candidates[cell[1]][cell[2]]
                /\ out.grid = _backtrack_solve(set_value(g, cell[1], cell[2], v))
                /\ \A w \in g.candidates[cell[1]][cell[2]] : w < v => ~BranchSucceeds(g, w)

\* C22: when the loop of solve ends on an incomplete grid and backtracking is
\* allowed, solve returns solved exactly when that grid has a valid
\* completion; the returned grid is then complete and valid, agrees with the
\* stalled grid and with every clue of the input, is the first success of
\* the candidates of the empty cell with the fewest candidates (the first in
\* row-major order among ties), and the result has used_backtracking and
\* the step 'backtracking' of level 6.
C22_BacktrackingFallback ==
    [][spc = "finish" /\ solving.allow_backtracking /\ ~is_complete(result.grid) =>
            FallbackOf(result.grid, result, result')]_vars

\* solve has returned a completion that backtracking found after branching on
\* a cell that is not the first empty cell of the stalled grid.
C22_Witness ==
    /\ spc = "done" /\ result # None
    /\ result.used_backtracking
    /\ result.solved
    /\ LET steps == TechniqueSteps(result)
           stalled == ReplayApplied(copy(solving.grid), steps, 1, Len(steps))
       IN /\ stalled # None
          /\ BranchCell(stalled) # get_empty_cells(stalled)[1]

\* solve with backtracking has returned unsolved: the stalled grid has no
\* completion.
C22_NoCompletion ==
    /\ spc = "done" /\ result # None
    /\ solving.allow_backtracking
    /\ ~result.solved

\* ------------------------------------------------------------------------
\* The result of analyze_difficulty
\* ------------------------------------------------------------------------

\* The steps of the result of analyze_difficulty, written onto the input
\* puzzle one after another (None when one of them is no application).
AnalysisReplayed ==
    LET steps == TechniqueSteps(analysis)
    IN ReplayApplied(copy(given.puzzle), steps, 1, Len(steps))

\* The attempt at a ceiling is taken into the result with everything the
\* result held before.
AttemptKept ==
    spc = "attempt" =>
        /\ analysis'.steps = analysis.steps \o result.steps
        /\ analysis'.techniques_used = analysis.techniques_used \cup result.techniques_used

\* Each ceiling starts from the grid the ceiling before it left.
GridCarriedOver ==
    /\ spc = "ceiling" /\ spc' = "solve" => solving'.grid = work_grid
    /\ spc = "attempt" /\ spc' = "ceiling" => work_grid' = result.grid
    /\ spc = "analyze" => work_grid' = given.puzzle

\* C23: analyze_difficulty starts each ceiling from the grid the ceiling
\* before it left; the result holds the techniques and the steps of every
\* ceiling run so far, those of the ceilings that did not solve included; and
\* the steps of the returned result, replayed from the input puzzle, give the
\* returned grid.
C23_WorkNeverDiscarded ==
    /\ [][GridCarriedOver /\ AttemptKept]_vars
    /\ [](spc = "analyzed" /\ analysis.solved /\ ~analysis.used_backtracking =>
             AnalysisReplayed = analysis.grid)

\* What analyze_difficulty keeps: each ceiling starts from the grid the
\* ceiling before it left, and an attempt that did not solve is merged into
\* the result.
C23_CarriedAndMerged ==
    [][GridCarriedOver /\ (spc = "attempt" /\ ~result.solved => AttemptKept)]_vars

\* What is lost: a solved attempt replaces the steps and techniques merged
\* before it, and the returned steps are those of the last ceiling only.
C23_LastCeilingOnly ==
    /\ [][spc = "attempt" /\ result.solved =>
             /\ analysis'.steps = result.steps
             /\ analysis'.techniques_used = result.techniques_used]_vars
    /\ [](spc = "analyzed" /\ analysis.solved /\ ~analysis.used_backtracking =>
             ReplayApplied(work_grid, analysis.steps, 1, Len(analysis.steps)) = analysis.grid)

\* A ceiling above 1 has solved the puzzle after a lower ceiling had written
\* steps, and the result holds none of them: replaying its steps from the
\* input puzzle does not give the returned grid.
C23_StepsLost ==
    /\ spc = "analyzed" /\ analysis.solved /\ ~analysis.used_backtracking
    /\ max_lvl >= 2
    /\ work_grid # given.puzzle
    /\ AnalysisReplayed # analysis.grid

\* ------------------------------------------------------------------------
\* The fallback of analyze_difficulty
\* ------------------------------------------------------------------------

\* analyze_difficulty has returned after none of the ceilings 1..5 solved a
\* puzzle that has a completion.
NoCeilingSolved ==
    /\ spc = "analyzed"
    /\ max_lvl = 6
    /\ NumCompletions(given.puzzle, 1) = 1

\* The result reports the completion backtracking found, at level 6.
ReportsBacktracking ==
    /\ analysis.solved
    /\ analysis.max_technique_level = 6
    /\ "backtracking" \in analysis.techniques_used

\* The fallback on every instance: when no ceiling solves a puzzle that has
\* a completion, analyze_difficulty reports solved with level 6 and the
\* technique 'backtracking', whatever allow_backtracking of the instance is.
C24_FallbackOnEveryInstance ==
    NoCeilingSolved => ReportsBacktracking

\* C24: when no ceiling 1..5 solves a puzzle that has a completion,
\* analyze_difficulty of an instance that allows backtracking (as the
\* default-constructed one does) reports solved with level 6, the technique
\* 'backtracking' and a solved grid that keeps the clues; an instance made
\* with allow_backtracking=False (as the classifiers of the generator are)
\* reports unsolved, with a level of at most 5 and without 'backtracking'.
C24_FallbackWhenAllowed ==
    NoCeilingSolved =>
        IF solver.allow_backtracking
        THEN /\ ReportsBacktracking
             /\ analysis.used_backtracking
             /\ IsSolvedGrid(analysis.grid)
             /\ CluesFrom(given.puzzle, analysis.grid)
             /\ analysis.steps[Len(analysis.steps)] = <<"backtracking", 6, <<"Trial and error">>>>
        ELSE /\ ~analysis.solved
             /\ analysis.max_technique_level <= 5
             /\ "backtracking" \notin analysis.techniques_used
             /\ ~analysis.used_backtracking

\* A default-constructed solver has reported level 6 after the ceilings
\* wrote steps and stalled.
C24_Witness ==
    /\ NoCeilingSolved
    /\ solver = [max_level |-> 5, allow_backtracking |-> TRUE]
    /\ analysis.solved
    /\ Len(analysis.steps) >= 2

\* An instance as the generator makes it has returned unsolved from a puzzle
\* that has a completion.
C24_ClassifierUnsolved ==
    /\ NoCeilingSolved
    /\ solver = [max_level |-> 5, allow_backtracking |-> FALSE]
    /\ ~analysis.solved

\* ------------------------------------------------------------------------
\* The effect of set_value
\* ------------------------------------------------------------------------

\* after is before with v written to the cell p: p holds v and has no
\* candidates, every cell that shares a row, a column or a box with p has
\* lost v and nothing else, every other cell has the candidates it had, and
\* no other cell has changed its value.
PlacedAt(before, after, p, v) ==
    /\ after.size = before.size
    /\ after.box_rows = before.box_rows /\ after.box_cols = before.box_cols
    /\ after.grid[p[1]][p[2]] = v
    /\ after.candidates[p[1]][p[2]] = {}
    /\ \A q \in CellsOf(before) \ {p} :
          /\ after.grid[q[1]][q[2]] = before.grid[q[1]][q[2]]
          /\ after.candidates[q[1]][q[2]] =
                IF SameUnit(before, p, q) THEN before.candidates[q[1]][q[2]] \ {v}
                ELSE before.candidates[q[1]][q[2]]

\* C25: set_value(r, c, v) with v > 0 writes v to (r, c), empties the
\* candidates of (r, c) and takes v out of the candidates of every cell of
\* the row, the column and the box; no other value changes, no other
\* candidate is removed, none is added, and the cells outside the row, the
\* column and the box keep their candidates.
C25_SetValueFrame ==
    [][gop' \in {"set_value_on_empty", "set_value_on_filled"} /\ gop # "idle" =>
            PlacedAt(board, board', <<gcall'[1], gcall'[2]>>, gcall'[3])]_vars

\* set_value has written a value into an empty cell and taken it out of the
\* candidates of a cell of the box that is neither in the row nor the column,
\* while a cell outside the three kept it.
C25_Witness ==
    /\ gop = "set_value_on_empty"
    /\ LET p == <<gcall[1], gcall[2]>>
           v == gcall[3]
       IN /\ \E q \in CellsOf(board) :
                /\ q[1] # p[1] /\ q[2] # p[2] /\ SameUnit(board, p, q)
                /\ v \in gprev.candidates[q[1]][q[2]]
                /\ v \notin board.candidates[q[1]][q[2]]
          /\ \E q \in CellsOf(board) :
                /\ ~SameUnit(board, p, q)
                /\ v \in board.candidates[q[1]][q[2]]

\* The cells lo..hi of the row-major scan, last first, set again with
\* set_value on the grid fresh where the grid g has a value.
RECURSIVE SetAgain(_, _, _, _)
SetAgain(fresh, g, lo, hi) ==
    IF lo > hi THEN fresh
    ELSE IF lo = hi
         THEN LET p == AllCells(g.size)[lo]
              IN IF g.grid[p[1]][p[2]] # 0
                 THEN set_value(fresh, p[1], p[2], g.grid[p[1]][p[2]])
                 ELSE fresh
         ELSE LET last == SetAgain(fresh, g, Mid(lo, hi) + 1, hi)
              IN IF Strict(last) THEN SetAgain(last, g, lo, Mid(lo, hi)) ELSE fresh

\* A new grid of the shape of g on which set_value was called for every
\* filled cell of g.
FreshWithValuesOf(g) ==
    SetAgain(create_grid(g.size), g, 1, g.size * g.size)

\* The grid satisfies the candidate invariant.
CandidateInvariant(g) == FilledHaveNone(g) /\ EmptyEqualPeers(g)

\* One call set_value(r, c, 0): the cell is empty afterwards, no other value
\* has changed, and the candidates are those of a new grid with the remaining
\* values set, whatever they were before.
ClearedAt(before, after, p) ==
    /\ after.grid = [before.grid EXCEPT ![p[1]][p[2]] = 0]
    /\ after = FreshWithValuesOf(after)
    /\ CandidateInvariant(after)

\* C26: set_value(r, c, 0) recomputes every candidate set: afterwards the
\* sets are those of a new grid on which set_value was called for every cell
\* that is still filled (what remove_candidate took out before is back); and
\* on a grid with the candidate invariant, set_value(r, c, v) on an empty cell
\* followed by set_value(r, c, 0) gives back the values and the candidates
\* of every cell.
C26_ClearRecomputes ==
    /\ [][gop' = "set_value_0" /\ gop # "idle" =>
             ClearedAt(board, board', <<gcall'[1], gcall'[2]>>)]_vars
    /\ [][/\ gop = "set_value_on_empty" /\ gop' = "set_value_0"
          /\ gcall'[1] = gcall[1] /\ gcall'[2] = gcall[2]
          /\ CandidateInvariant(gprev)
          => board' = gprev]_vars

\* A filled cell was cleared on a grid on which remove_candidate had taken out
\* a value no peer holds, and the value is back.
C26_Witness ==
    /\ gop = "set_value_0"
    /\ gprev.grid[gcall[1]][gcall[2]] # 0
    /\ FilledHaveNone(gprev) /\ ~EmptyEqualPeers(gprev)
    /\ CandidateInvariant(board)

\* A value was placed into an empty cell of a grid with the candidate
\* invariant and cleared again, and the grid is as it was before the two calls.
C26_PlacedAndCleared ==
    /\ gop = "set_value_0" /\ gn >= 2
    /\ gprev.grid[gcall[1]][gcall[2]] # 0
    /\ PlacedAt(board, gprev, <<gcall[1], gcall[2]>>, gprev.grid[gcall[1]][gcall[2]])
    /\ CandidateInvariant(board)
    /\ \E q \in CellsOf(board) : board.grid[q[1]][q[2]] # 0

\* ------------------------------------------------------------------------
\* The removal scan of _create_puzzle
\* ------------------------------------------------------------------------

\* The classifier has just reported on the current puzzle.
ClassifiedNow == spc = "analyzed" /\ given.puzzle = puzzle

\* The visit of a cell goes on to the removal: more than 17 clues, and more
\* than min_clues or a level below target_level.
GoesOn ==
    /\ count_clues(puzzle) > 17
    /\ \/ count_clues(puzzle) > min_clues
       \/ ClassifiedNow /\ analysis.max_technique_level < call.target_level

\* The scan has stopped at a visit: 17 clues or fewer; or min_clues or fewer
\* and a level of at least target_level.
Stopped ==
    \/ count_clues(puzzle) <= 17
    \/ /\ count_clues(puzzle) <= min_clues
       /\ ClassifiedNow /\ analysis.max_technique_level >= call.target_level

\* C28: a visit of the removal scan clears its cell exactly when the puzzle has
\* more than 17 clues and either more than min_clues or a classifier level
\* below target_level (so the scan removes below min_clues while the level is
\* below the target); the scan stops at the first visit where that fails;
\* a puzzle returned with fewer than min_clues is not returned by
\* generate_puzzle: the next attempt follows.
C28_ScanStops ==
    /\ [](pc = "remove" => GoesOn)
    /\ [](pc = "classify" /\ visit = "break" => Stopped /\ k <= Len(cells))
    /\ [](pc = "classify" /\ visit # "break" => k > Len(cells))
    /\ [][pc = "remove" => puzzle'.grid = [puzzle.grid EXCEPT ![cells[k][1]][cells[k][2]] = 0]]_vars
    /\ [][pc = "accept" /\ pc' # "accept" /\ count_clues(puzzle) < min_clues =>
             ret' = None /\ pc' = "attempt" /\ attempt' = attempt + 1]_vars

\* A cell is about to be cleared from a puzzle that has fewer clues than
\* min_clues, after removals below min_clues were kept.
C28_Witness ==
    /\ pc = "remove"
    /\ count_clues(puzzle) < min_clues
    /\ count_clues(puzzle) < call.size * call.size
    /\ visit = "kept"

\* The scan has stopped above 17 clues, at min_clues or fewer with the level
\* of the target.
C28_StoppedAtLevel ==
    /\ pc = "classify" /\ visit = "break"
    /\ count_clues(puzzle) > 17

\* An attempt whose puzzle has fewer clues than min_clues was discarded.
C28_Discarded ==
    /\ pc = "attempt" /\ attempt >= 1
    /\ puzzle # None /\ count_clues(puzzle) < min_clues

\* ------------------------------------------------------------------------
\* The floor of 17 clues
\* ------------------------------------------------------------------------

VisitedCell == cells[k]

\* The classifier solves the grid g without backtracking at a level of at
\* most target_level + 1.
WithinReach(g) ==
    LET found == analyze_difficulty(5, FALSE, g)
    IN found.solved /\ found.max_technique_level <= call.target_level + 1

\* A visit is undone: the cell has its value again, no other value has
\* changed, and the candidates are those the values determine.
Reverted ==
    /\ puzzle'.grid = [puzzle.grid EXCEPT ![VisitedCell[1]][VisitedCell[2]] = backup]
    /\ CandidateInvariant(puzzle')

\* C29: after every visit of a cell in _create_puzzle the classifier solves
\* the puzzle without backtracking at a level of at most target_level + 1; a
\* removal is undone exactly when the puzzle has a second solution, or the
\* classifier does not solve it or reports a level above target_level + 1; and
\* an undone removal leaves the values and the candidate sets the puzzle had
\* before (the removal had taken the value of that cell only, and the
\* candidate sets before and after are those the values determine).
C29_VisitStaysWithinReach ==
    /\ [](pc = "scan" /\ visit \in {"kept", "reverted"} => WithinReach(puzzle))
    /\ [](pc \in {"scan", "scan_level", "remove"} => CandidateInvariant(puzzle))
    /\ [][pc = "remove" =>
             /\ backup' = puzzle.grid[VisitedCell[1]][VisitedCell[2]]
             /\ backup' # 0
             /\ puzzle'.grid = [puzzle.grid EXCEPT ![VisitedCell[1]][VisitedCell[2]] = 0]]_vars
    /\ [][pc = "difficulty" /\ pc' = "scan" =>
             /\ ClassifiedNow
             /\ IF ~analysis.solved \/ analysis.max_technique_level > call.target_level + 1
                THEN visit' = "reverted" /\ Reverted
                ELSE visit' = "kept" /\ puzzle' = puzzle]_vars
    /\ [][pc = "unique" /\ pc' = "scan" => visit' = "reverted" /\ Reverted]_vars

\* A removal that left one solution was undone because the classifier did not
\* solve the puzzle without the cell.
C29_Unsolved ==
    /\ pc = "scan" /\ visit = "reverted"
    /\ unique = Some(TRUE)
    /\ ~analysis.solved
    /\ count_clues(puzzle) < call.size * call.size

\* A removal that left one solution was undone because the classifier solved
\* the puzzle without the cell at a level above target_level + 1.
C29_Witness ==
    /\ pc = "scan" /\ visit = "reverted"
    /\ unique = Some(TRUE)
    /\ analysis.solved
    /\ analysis.max_technique_level > call.target_level + 1

\* ------------------------------------------------------------------------
\* C30
\* ------------------------------------------------------------------------

\* The functions that work on a copy of the grid passed to them.
WorksOnCopy ==
    hfn \in {"solve", "analyze_difficulty", "_backtrack_solve",
             "count_solutions", "has_unique_solution"}

\* The lists the object id refers to.
RefsOf(h, id) == {h.objs[id].grid, h.objs[id].candidates}

\* No other object refers to a list of the caller's object.
CallerApart ==
    \A id \in 2 .. Len(heap.objs) : RefsOf(heap, id) \cap RefsOf(heap, 1) = {}

\* While one of the functions is under way and when it has returned, the
\* caller's object holds the values and the candidate sets it held at the call.
CallerUntouched ==
    WorksOnCopy /\ hpc # "ready" => Deref(heap, 1) = hbefore /\ CallerApart

\* After copy() the two objects refer to different lists with equal content,
\* and a set_value or remove_candidate on one of them leaves the other as it
\* was.
CopyApart ==
    /\ hfn = "copy" /\ hpc \in {"mutate", "mutated"} =>
          RefsOf(heap, 1) \cap RefsOf(heap, 2) = {}
    /\ hfn = "copy" /\ hpc = "mutate" =>
          Deref(heap, 1) = hbefore /\ Deref(heap, 2) = hbefore
    /\ hfn = "copy" /\ hpc = "mutated" =>
          Deref(heap, 3 - hscan.obj) = hbefore

\* is_valid returns, by any of its ways out, with the object as it was when
\* is_valid was entered.
ValidReturns == hpc = "valid" /\ hpc' # "valid"

ValidRestores == ValidReturns => Deref(heap', hscan.obj) = hscan.start

\* C30: solve, analyze_difficulty, _backtrack_solve, count_solutions and
\* has_unique_solution leave the values and the candidate sets of the grid
\* passed to them unchanged; is_valid returns, on every return path, with
\* every cell it cleared restored; and a grid made by copy() shares no list
\* with its original, so that a change of either leaves the other unchanged.
C30_CallerGridUntouched ==
    [](CallerUntouched /\ CopyApart) /\ [][ValidRestores]_vars

\* solve has returned after writing into its copy.
C30_Witness ==
    /\ hfn = "solve" /\ hpc = "returned"
    /\ Deref(heap, Top) # hbefore
    /\ Deref(heap, 1) = hbefore

\* is_valid has returned False on the caller's grid, which holds a value twice.
C30_ValidFalse ==
    /\ hfn = "is_valid" /\ hpc = "returned" /\ hverdict = FALSE
    /\ Deref(heap, 1) = hbefore

\* is_valid found the value again in the column, and in the box, only.
C30_ValidFalseByColumn ==
    /\ C30_ValidFalse
    /\ LET g == hbefore
           p == AllCells(g.size)[hscan.i]
           cleared == WithCell(g, p[1], p[2], 0)
       IN ~InRow(cleared, p[1], g.grid[p[1]][p[2]])
          /\ InCol(cleared, p[2], g.grid[p[1]][p[2]])

C30_ValidFalseByBox ==
    /\ C30_ValidFalse
    /\ LET g == hbefore
           p == AllCells(g.size)[hscan.i]
           cleared == WithCell(g, p[1], p[2], 0)
       IN ~InRow(cleared, p[1], g.grid[p[1]][p[2]])
          /\ ~InCol(cleared, p[2], g.grid[p[1]][p[2]])
          /\ InBox(cleared, p[1], p[2], g.grid[p[1]][p[2]])

\* The copy has been changed and the original is as it was, and the other
\* way round.
C30_CopyChanged ==
    /\ hfn = "copy" /\ hpc = "mutated" /\ hscan.obj = 2
    /\ Deref(heap, 2) # hbefore /\ Deref(heap, 1) = hbefore

C30_OriginalChanged ==
    /\ hfn = "copy" /\ hpc = "mutated" /\ hscan.obj = 1
    /\ Deref(heap, 1) # hbefore /\ Deref(heap, 2) = hbefore

\* The searches have worked through grids tried and dropped.
C30_SearchReturned ==
    /\ hfn = "_backtrack_solve" /\ hpc = "returned" /\ Len(hchain) > 3

C30_CountedTwo ==
    /\ hfn = "has_unique_solution" /\ hpc = "returned" /\ hcount = 2

C30_AnalyzeFallback ==
    /\ hfn = "analyze_difficulty" /\ hceiling = 6 /\ hpc = "returned"
====
